---- MODULE Spec2Model ----
(***************************************************************************)
(* Model of the search scrapers of the repository:                         *)
(*   server/archive-org-search.py  (search_archive_org_books,              *)
(*                                  get_book_details, __main__)            *)
(*   server/pdf-drive-scraper.py   (PdfDriveScraper.search_books,          *)
(*                                  _extract_book_data, main)              *)
(*                                                                         *)
(* Python text is a sequence of one-character strings, so that lower(),    *)
(* the `in` substring test and ', '.join are computed, not assumed.        *)
(* A JSON / Python value is a tagged record [t, v]:                        *)
(*   null, bool, num, str (v: characters), list (v: sequence of values),   *)
(*   obj (v: function from key to value; an absent key is not in DOMAIN).  *)
(* A Python evaluation that may raise yields [exc, val]: exc is "none" or   *)
(* the name of the exception class.                                        *)
(***************************************************************************)
EXTENDS Integers, Sequences, FiniteSets, TLC

\* ------------------------------------------------------------ bounds
\* Longest document array of a provider response.
MaxDocs == 2
\* Most result elements (div.file-right) of a PDF Drive result page.
MaxElems == 2

\* ------------------------------------------------------------ Python text
UpperChars == <<"A","B","C","D","E","F","G","H","I","J","K","L","M",
                "N","O","P","Q","R","S","T","U","V","W","X","Y","Z">>
LowerChars == <<"a","b","c","d","e","f","g","h","i","j","k","l","m",
                "n","o","p","q","r","s","t","u","v","w","x","y","z">>

\* str.lower() on one character.
LowerChar(c) ==
    IF \E i \in 1..Len(UpperChars) : UpperChars[i] = c
    THEN LowerChars[CHOOSE i \in 1..Len(UpperChars) : UpperChars[i] = c]
    ELSE c

\* str.lower()
Lower(s) == [i \in 1..Len(s) |-> LowerChar(s[i])]

\* `k in s` for two strings: k occurs as a substring of s.
Contains(s, k) ==
    \E i \in 0..(Len(s) - Len(k)) : SubSeq(s, i + 1, i + Len(k)) = k

\* sep.join(parts) for a sequence of strings.
RECURSIVE Join(_, _)
Join(sep, parts) ==
    IF Len(parts) = 0 THEN <<>>
    ELSE IF Len(parts) = 1 THEN parts[1]
    ELSE parts[1] \o sep \o Join(sep, Tail(parts))

CommaSpace == <<",", " ">>

\* str(n) for a natural number.
RECURSIVE DigitsOf(_)
DigitsOf(n) ==
    LET d == <<"0","1","2","3","4","5","6","7","8","9">>
    IN  IF n < 10 THEN <<d[n + 1]>> ELSE DigitsOf(n \div 10) \o <<d[(n % 10) + 1]>>

\* ------------------------------------------------------------ JSON values
JNull == [t |-> "null", v |-> <<>>]
JNum(n) == [t |-> "num", v |-> n]
JStr(s) == [t |-> "str", v |-> s]
JList(s) == [t |-> "list", v |-> s]
JObj(f) == [t |-> "obj", v |-> f]
EmptyObj == JObj(<<>>)

Raise(e) == [exc |-> e, val |-> JNull]
Ok(x) == [exc |-> "none", val |-> x]

\* bool(x): Python truthiness.
Truthy(x) ==
    CASE x.t = "null" -> FALSE
      [] x.t = "num"  -> x.v # 0
      [] x.t = "str"  -> Len(x.v) > 0
      [] x.t = "list" -> Len(x.v) > 0
      [] x.t = "obj"  -> DOMAIN x.v # {}

\* str(x) / repr(x): a string is itself under str() and quoted under repr().
RECURSIVE PyRepr(_)
PyRepr(x) ==
    CASE x.t = "null" -> <<"N","o","n","e">>
      [] x.t = "num"  -> DigitsOf(x.v)
      [] x.t = "str"  -> <<"'">> \o x.v \o <<"'">>
      [] x.t = "list" -> <<"[">> \o Join(CommaSpace, [i \in 1..Len(x.v) |-> PyRepr(x.v[i])]) \o <<"]">>
      [] x.t = "obj"  -> <<"{", "}">>

PyStr(x) == IF x.t = "str" THEN x.v ELSE PyRepr(x)

\* The characters of the dictionary keys the scrapers look up.
KeyChars(k) ==
    CASE k = "response" -> <<"r","e","s","p","o","n","s","e">>
      [] k = "docs"     -> <<"d","o","c","s">>
      [] k = "items"    -> <<"i","t","e","m","s">>
      [] k = "metadata" -> <<"m","e","t","a","d","a","t","a">>
      [] OTHER          -> <<"k">>

\* `key in x`: key lookup in a dict, element test in a list, substring test
\* in a str, TypeError for a value that is not a container.
PyIn(key, x) ==
    CASE x.t = "obj"  -> Ok(key \in DOMAIN x.v)
      [] x.t = "list" -> Ok(\E i \in 1..Len(x.v) : x.v[i].t = "str" /\ x.v[i].v = KeyChars(key))
      [] x.t = "str"  -> Ok(Contains(x.v, KeyChars(key)))
      [] OTHER        -> Raise("TypeError")

\* x[key] for a str key.
PyGetItem(x, key) ==
    CASE x.t = "obj" -> IF key \in DOMAIN x.v THEN Ok(x.v[key]) ELSE Raise("KeyError")
      [] OTHER       -> Raise("TypeError")

\* x.get(key, default): only a dict has the method.
PyGet(x, key, default) ==
    IF x.t = "obj"
    THEN Ok(IF key \in DOMAIN x.v THEN x.v[key] ELSE default)
    ELSE Raise("AttributeError")

\* len(x)
PyLen(x) ==
    CASE x.t = "list" -> Ok(Len(x.v))
      [] x.t = "str"  -> Ok(Len(x.v))
      [] x.t = "obj"  -> Ok(Cardinality(DOMAIN x.v))
      [] OTHER        -> Raise("TypeError")

\* The items `for item in x` visits.  A dict yields its keys (strings); the
\* loops of the scrapers raise on the first of them, so one stands for all.
PyIter(x) ==
    CASE x.t = "list" -> Ok(x.v)
      [] x.t = "str"  -> Ok([i \in 1..Len(x.v) |-> JStr(<<x.v[i]>>)])
      [] x.t = "obj"  -> Ok(IF DOMAIN x.v = {} THEN <<>>
                            ELSE <<JStr(KeyChars(CHOOSE k \in DOMAIN x.v : TRUE))>>)
      [] OTHER        -> Raise("TypeError")

\* Mutant: the field is passed on as it came, a list stays a list.
JoinIfList_raw(x) == Ok(x)

\* ', '.join(x) if isinstance(x, list) else x   (x = item.get(key, default))
JoinIfList(x) ==
    IF x.t = "list"
    THEN IF \A i \in 1..Len(x.v) : x.v[i].t = "str"
         THEN Ok(JStr(Join(CommaSpace, [i \in 1..Len(x.v) |-> x.v[i].v])))
         ELSE Raise("TypeError")
    ELSE Ok(x)

\* ------------------------------------------------------------ archive-org-search.py
S_UnknownTitle == <<"U","n","k","n","o","w","n"," ","T","i","t","l","e">>
S_UnknownAuthor == <<"U","n","k","n","o","w","n"," ","A","u","t","h","o","r">>
S_Unknown == <<"U","n","k","n","o","w","n">>

skip_keywords ==
    << <<"m","a","n","u","a","l">>, <<"g","a","m","e">>,
       <<"s","o","f","t","w","a","r","e">>, <<"v","e","r","s","i","o","n">>,
       <<"p","a","t","c","h">>, <<"c","h","e","a","t">>,
       <<"w","a","l","k","t","h","r","o","u","g","h">>,
       <<"s","t","r","a","t","e","g","y"," ","g","u","i","d","e">>,
       <<"d","e","v","e","l","o","p","m","e","n","t">>, <<"b","e","t","a">>,
       <<"h","i","n","t">>, <<"c","r","a","c","k">>,
       <<"t","r","a","i","n","e","r">>, <<"s","a","v","e"," ","f","i","l","e">>,
       <<"r","o","m">>, <<"e","m","u","l","a","t","o","r">>
    >>

\* Mutant: only the title is searched for the keywords.
HasSkipKeyword_titleOnly(title, description) ==
    \E i \in 1..Len(skip_keywords) : Contains(title, skip_keywords[i])

\* Mutant: only the description is searched for the keywords.
HasSkipKeyword_descriptionOnly(title, description) ==
    \E i \in 1..Len(skip_keywords) : Contains(description, skip_keywords[i])

\* any(keyword in title or keyword in description for keyword in skip_keywords)
HasSkipKeyword(title, description) ==
    \E i \in 1..Len(skip_keywords) :
        Contains(title, skip_keywords[i]) \/ Contains(description, skip_keywords[i])

\* f'{prefix}{x}': the literal text is kept as one fragment.
FString(prefix, x) == JStr(<<prefix>> \o PyStr(x))

\* item.get('title', 'Unknown Title')
BookTitle(item) == PyGet(item, "title", JStr(S_UnknownTitle)).val

\* Mutant: only an identifier of None is skipped, an empty one is kept.
SkipIdentifier_onlyNone(identifier) == identifier.t = "null"

\* `if not identifier: continue`
SkipIdentifier(identifier) == ~Truthy(identifier)

\* The book dict of one kept document; the values are evaluated in the order
\* of the dict display, and the first join that raises ends the evaluation.
MakeBook(item, identifier, nbooks) ==
    LET author   == JoinIfList(PyGet(item, "creator", JStr(S_UnknownAuthor)).val)
        subject  == JoinIfList(PyGet(item, "subject", JStr(<<>>)).val)
        language == JoinIfList(PyGet(item, "language", JStr(<<"e","n">>)).val)
        format   == JoinIfList(PyGet(item, "format", JStr(<<>>)).val)
    IN  IF \/ author.exc # "none" \/ subject.exc # "none"
           \/ language.exc # "none" \/ format.exc # "none"
        THEN [exc |-> "TypeError", skip |-> FALSE, book |-> <<>>]
        ELSE [exc |-> "none", skip |-> FALSE, book |->
               [id          |-> nbooks + 1,
                identifier  |-> identifier,
                title       |-> BookTitle(item),
                author      |-> author.val,
                year        |-> PyGet(item, "date", JStr(S_Unknown)).val,
                subject     |-> subject.val,
                description |-> PyGet(item, "description", JStr(<<>>)).val,
                downloads   |-> PyGet(item, "downloads", JNum(0)).val,
                size        |-> PyGet(item, "item_size", JNum(0)).val,
                language    |-> language.val,
                format      |-> format.val,
                viewUrl     |-> FString("https://archive.org/details/", identifier),
                downloadUrl |-> FString("https://archive.org/download/", identifier),
                imageUrl    |-> FString("https://archive.org/services/img/", identifier),
                category    |-> JStr(<<"b","o","o","k","s">>),
                popularity  |-> PyGet(item, "downloads", JNum(0)).val]]

\* Mutant: the title is lowercased before the identifier is looked at.
NormalizeItem_titleFirst(item, nbooks) ==
    LET skipped == [exc |-> "none", skip |-> TRUE, book |-> <<>>]
        raised(e) == [exc |-> e, skip |-> FALSE, book |-> <<>>]
        identifier == PyGet(item, "identifier", JStr(<<>>))
        rawTitle == PyGet(item, "title", JStr(<<>>)).val
        description == Lower(PyStr(PyGet(item, "description", JStr(<<>>)).val))
    IN  IF identifier.exc # "none" THEN raised(identifier.exc)
        ELSE IF rawTitle.t # "str" THEN raised("AttributeError")
        ELSE IF SkipIdentifier(identifier.val) THEN skipped
        ELSE IF HasSkipKeyword(Lower(rawTitle.v), description) THEN skipped
        ELSE MakeBook(item, identifier.val, nbooks)

\* One pass of the loop body over a provider document: the document is
\* skipped, kept as a book, or the pass raises.
NormalizeItem(item, nbooks) ==
    LET skipped == [exc |-> "none", skip |-> TRUE, book |-> <<>>]
        raised(e) == [exc |-> e, skip |-> FALSE, book |-> <<>>]
        identifier == PyGet(item, "identifier", JStr(<<>>))
        rawTitle == PyGet(item, "title", JStr(<<>>)).val
        description == Lower(PyStr(PyGet(item, "description", JStr(<<>>)).val))
    IN  IF identifier.exc # "none" THEN raised(identifier.exc)
        ELSE IF SkipIdentifier(identifier.val) THEN skipped
        ELSE IF rawTitle.t # "str" THEN raised("AttributeError")
        ELSE IF HasSkipKeyword(Lower(rawTitle.v), description) THEN skipped
        ELSE MakeBook(item, identifier.val, nbooks)

\* Mutant: the book is put in front of the books made so far.
RECURSIVE NormalizeLoop_prepend(_, _, _)
NormalizeLoop_prepend(items, k, books) ==
    IF k > Len(items) THEN [exc |-> "none", books |-> books]
    ELSE LET r == NormalizeItem(items[k], Len(books))
         IN  IF r.exc # "none" THEN [exc |-> r.exc, books |-> books]
             ELSE NormalizeLoop_prepend(items, k + 1,
                                        IF r.skip THEN books ELSE <<r.book>> \o books)

\* for idx, item in enumerate(docs): ... books.append(book)
RECURSIVE NormalizeLoop(_, _, _)
NormalizeLoop(items, k, books) ==
    IF k > Len(items) THEN [exc |-> "none", books |-> books]
    ELSE LET r == NormalizeItem(items[k], Len(books))
         IN  IF r.exc # "none" THEN [exc |-> r.exc, books |-> books]
             ELSE NormalizeLoop(items, k + 1,
                                IF r.skip THEN books ELSE Append(books, r.book))

\* Mutant: an empty document array is treated as an error.
NormalizeDocs_emptyRaises(docs) ==
    IF ~Truthy(docs) THEN [exc |-> "ValueError", books |-> <<>>]
    ELSE LET it == PyIter(docs)
         IN  IF it.exc # "none" THEN [exc |-> it.exc, books |-> <<>>]
             ELSE NormalizeLoop(it.val, 1, <<>>)

\* `if docs:` and the loop over them.
NormalizeDocs(docs) ==
    IF ~Truthy(docs) THEN [exc |-> "none", books |-> <<>>]
    ELSE LET it == PyIter(docs)
         IN  IF it.exc # "none" THEN [exc |-> it.exc, books |-> <<>>]
             ELSE NormalizeLoop(it.val, 1, <<>>)

\* docs = [] unless data['response']['docs'] or data['items'] is there.
ExtractDocs(data) ==
    LET hasResp == PyIn("response", data)
        resp == PyGetItem(data, "response")
        hasDocs == PyIn("docs", resp.val)
        hasItems == PyIn("items", data)
    IN  IF hasResp.exc # "none" THEN Raise(hasResp.exc)
        ELSE IF hasResp.val /\ resp.exc # "none" THEN Raise(resp.exc)
        ELSE IF hasResp.val /\ hasDocs.exc # "none" THEN Raise(hasDocs.exc)
        ELSE IF hasResp.val /\ hasDocs.val THEN PyGetItem(resp.val, "docs")
        ELSE IF hasItems.val THEN PyGetItem(data, "items")
        ELSE Ok(JList(<<>>))

\* data.get('response', {}).get('numFound', 0) if 'response' in data else len(docs)
TotalFound(data, docs) ==
    LET hasResp == PyIn("response", data)
        resp == PyGet(data, "response", EmptyObj)
        n == PyLen(docs)
    IN  IF hasResp.exc # "none" THEN Raise(hasResp.exc)
        ELSE IF hasResp.val
             THEN IF resp.exc # "none" THEN Raise(resp.exc)
                  ELSE PyGet(resp.val, "numFound", JNum(0))
             ELSE IF n.exc # "none" THEN Raise(n.exc) ELSE Ok(JNum(n.val))

\* str(e) of the exceptions the function body raises.
ExcText(e) ==
    CASE e = "TypeError"      -> "unsupported operand or argument type"
      [] e = "AttributeError" -> "object has no attribute"
      [] e = "KeyError"       -> "'key'"
      [] OTHER                -> e

\* Mutant: the failure dict is returned without its books key.
NetworkError_noBooks(msg) == [success |-> FALSE, error |-> "Network error: " \o msg]

NetworkError(msg) == [success |-> FALSE, error |-> "Network error: " \o msg, books |-> <<>>]
SearchError(msg) == [success |-> FALSE, error |-> "Search error: " \o msg, books |-> <<>>]

\* response.raise_for_status(): HTTPError for a 4xx or 5xx status only.
RaisesForStatus(status) == 400 <= status /\ status < 600

\* rows = min(limit, 100)
Rows(limit) == IF limit < 100 THEN limit ELSE 100

\* Mutant: a failure of the loop returns the books made before it.
SearchSuccess_partialBooks(query, data) ==
    LET docs == ExtractDocs(data)
        norm == NormalizeDocs(docs.val)
        total_found == TotalFound(data, docs.val)
    IN  IF docs.exc # "none" THEN SearchError(ExcText(docs.exc))
        ELSE IF norm.exc # "none"
             THEN [success |-> FALSE, error |-> "Search error: " \o ExcText(norm.exc),
                   books |-> norm.books]
        ELSE IF total_found.exc # "none" THEN SearchError(ExcText(total_found.exc))
        ELSE [success     |-> TRUE,
              books       |-> norm.books,
              total       |-> Len(norm.books),
              query       |-> query,
              total_found |-> total_found.val,
              message     |-> IF norm.books # <<>>
                              THEN <<"Found ", JNum(Len(norm.books)),
                                     " relevant books out of ", total_found.val,
                                     " total results">>
                              ELSE <<"No books found matching your search. Try different keywords or browse categories.">>]

\* The statements after response.json(): normalisation and the success dict.
SearchSuccess(query, data) ==
    LET docs == ExtractDocs(data)
        norm == NormalizeDocs(docs.val)
        total_found == TotalFound(data, docs.val)
    IN  IF docs.exc # "none" THEN SearchError(ExcText(docs.exc))
        ELSE IF norm.exc # "none" THEN SearchError(ExcText(norm.exc))
        ELSE IF total_found.exc # "none" THEN SearchError(ExcText(total_found.exc))
        ELSE [success     |-> TRUE,
              books       |-> norm.books,
              total       |-> Len(norm.books),
              query       |-> query,
              total_found |-> total_found.val,
              message     |-> IF norm.books # <<>>
                              THEN <<"Found ", JNum(Len(norm.books)),
                                     " relevant books out of ", total_found.val,
                                     " total results">>
                              ELSE <<"No books found matching your search. Try different keywords or browse categories.">>]

\* search_archive_org_books from the answer of requests.get on: http is what
\* the GET produced, a raised RequestException or a response.
search_archive_org_books(query, category, limit, http) ==
    IF http.kind # "response" THEN NetworkError(http.msg)
    ELSE IF RaisesForStatus(http.status) THEN NetworkError(http.msg)
    ELSE IF ~http.valid
         THEN IF http.jsonErrIsRequestException
              THEN NetworkError(http.msg) ELSE SearchError(http.msg)
         ELSE SearchSuccess(query, http.json)

\* name.split('.')[-1]: the text after the last '.'.
RECURSIVE AfterLastDot(_)
AfterLastDot(name) ==
    IF Len(name) = 0 \/ name[Len(name)] = "." THEN <<>>
    ELSE AfterLastDot(SubSeq(name, 1, Len(name) - 1)) \o <<name[Len(name)]>>

DownloadFormats == { <<"p","d","f">>, <<"e","p","u","b">>, <<"t","x","t">>, <<"d","j","v","u">> }
S_original == <<"o","r","i","g","i","n","a","l">>

\* The loop over files: download_urls[format_ext] = url for the original
\* files of a downloadable format; a later file of a format replaces an
\* earlier one.
RECURSIVE DownloadUrls(_, _, _, _)
DownloadUrls(files, k, identifier, urls) ==
    IF k > Len(files) THEN [exc |-> "none", urls |-> urls]
    ELSE LET file == files[k]
             rawName == PyGet(file, "name", JStr(<<>>))
             rawSource == PyGet(file, "source", JStr(<<>>))
             name == Lower(rawName.val.v)
             source == Lower(rawSource.val.v)
             format_ext == IF Contains(name, <<".">>) THEN AfterLastDot(name) ELSE <<>>
             url == JStr(<<"https://archive.org/download/">> \o identifier
                         \o <<"/">> \o PyStr(file.v["name"]))
         IN  IF rawName.exc # "none" THEN [exc |-> rawName.exc, urls |-> urls]
             ELSE IF rawName.val.t # "str" \/ rawSource.val.t # "str"
                  THEN [exc |-> "AttributeError", urls |-> urls]
             ELSE IF (source = S_original \/ Contains(name, S_original))
                     /\ format_ext \in DownloadFormats
                  THEN DownloadUrls(files, k + 1, identifier,
                         [e \in (DOMAIN urls) \cup {format_ext} |->
                             IF e = format_ext THEN url ELSE urls[e]])
             ELSE DownloadUrls(files, k + 1, identifier, urls)

DetailsError(msg) == [success |-> FALSE, error |-> "Failed to get book details: " \o msg]
\* Mutant: the body is not looked at for 'metadata', metadata['metadata'] raises.
BookNotFound_keyError == DetailsError("'metadata'")
BookNotFound == [success |-> FALSE, error |-> "Book not found"]

\* The statements of get_book_details after response.json().
DetailsSuccess(identifier, metadata) ==
    LET hasMeta == PyIn("metadata", metadata)
        meta == PyGetItem(metadata, "metadata")
        files == PyGet(metadata, "files", JList(<<>>))
        it == PyIter(files.val)
        urls == DownloadUrls(it.val, 1, identifier, <<>>)
        title == PyGet(meta.val, "title", JStr(S_UnknownTitle))
        creator == JoinIfList(PyGet(meta.val, "creator", JStr(S_UnknownAuthor)).val)
        subject == JoinIfList(PyGet(meta.val, "subject", JStr(<<>>)).val)
        language == JoinIfList(PyGet(meta.val, "language", JStr(<<"e","n">>)).val)
    IN  IF hasMeta.exc # "none" THEN DetailsError(ExcText(hasMeta.exc))
        ELSE IF ~hasMeta.val THEN BookNotFound
        ELSE IF meta.exc # "none" THEN DetailsError(ExcText(meta.exc))
        ELSE IF files.exc # "none" THEN DetailsError(ExcText(files.exc))
        ELSE IF it.exc # "none" THEN DetailsError(ExcText(it.exc))
        ELSE IF urls.exc # "none" THEN DetailsError(ExcText(urls.exc))
        ELSE IF title.exc # "none" THEN DetailsError(ExcText(title.exc))
        ELSE IF creator.exc # "none" THEN DetailsError(ExcText(creator.exc))
        ELSE IF subject.exc # "none" THEN DetailsError(ExcText(subject.exc))
        ELSE IF language.exc # "none" THEN DetailsError(ExcText(language.exc))
        ELSE [success      |-> TRUE,
              identifier   |-> JStr(identifier),
              title        |-> title.val,
              creator      |-> creator.val,
              description  |-> PyGet(meta.val, "description", JStr(<<>>)).val,
              date         |-> PyGet(meta.val, "date", JStr(S_Unknown)).val,
              subject      |-> subject.val,
              language     |-> language.val,
              downloads    |-> PyGet(meta.val, "downloads", JNum(0)).val,
              downloadUrls |-> urls.urls,
              viewUrl      |-> FString("https://archive.org/details/", JStr(identifier)),
              imageUrl     |-> FString("https://archive.org/services/img/", JStr(identifier))]

\* get_book_details from the answer of requests.get on.
get_book_details(identifier, http) ==
    IF http.kind # "response" THEN DetailsError(http.msg)
    ELSE IF RaisesForStatus(http.status) THEN DetailsError(http.msg)
    ELSE IF ~http.valid THEN DetailsError(http.msg)
    ELSE DetailsSuccess(identifier, http.json)

\* ------------------------------------------------------------ pdf-drive-scraper.py
IsSpace(c) == c \in {" ", "\t", "\n"}

\* str.strip()
RECURSIVE Strip(_)
Strip(s) ==
    IF Len(s) = 0 THEN s
    ELSE IF IsSpace(s[1]) THEN Strip(Tail(s))
    ELSE IF IsSpace(s[Len(s)]) THEN Strip(SubSeq(s, 1, Len(s) - 1))
    ELSE s

\* urljoin(self.base_url, href) for a path-absolute, an absolute or a
\* relative reference; the base is kept as one fragment.
UrlJoin(href) ==
    IF Len(href) > 0 /\ href[1] = "/" THEN <<"https://www.pdfdrive.com">> \o href
    ELSE IF Len(href) >= 4 /\ SubSeq(href, 1, 4) = <<"h","t","t","p">> THEN href
    ELSE <<"https://www.pdfdrive.com", "/">> \o href

\* dict update: the keys of g added to f.
Merge(f, g) == [k \in (DOMAIN f) \cup (DOMAIN g) |-> IF k \in DOMAIN g THEN g[k] ELSE f[k]]

\* A result element, as the finds of _extract_book_data see it:
\*   link   "none" (no h2.file-title or no <a> in it), "nohref" (an <a>
\*          without href) or "ok";
\*   text, href   of the <a>;  author   <<>> or <<text of span.file-author>>.
\* _extract_book_data returns a book dict, or None: for an element without
\* title link, and from its own `except Exception` (title_elem.find('a')['href']
\* raises KeyError when the <a> has no href).  The optional pages, size, year,
\* preview, imageUrl and category keys are not carried.
PdfExtractTitle(element) == Strip(element.text)

_extract_book_data(element) ==
    IF element.link = "none" THEN [some |-> FALSE, book |-> <<>>]
    ELSE IF element.link = "nohref" THEN [some |-> FALSE, book |-> <<>>]
    ELSE LET url == UrlJoin(element.href)
             base == [title |-> PdfExtractTitle(element), url |-> url]
             withAuthor == IF Len(element.author) > 0
                           THEN Merge(base, [author |-> Strip(element.author[1])])
                           ELSE base
         IN  [some |-> TRUE,
              book |-> Merge(withAuthor,
                             [extension   |-> <<"p","d","f">>,
                              language    |-> <<"e","n","g","l","i","s","h">>,
                              popularity  |-> 0,
                              downloadUrl |-> url])]

\* book_elements[:limit]
SliceTo(elements, limit) ==
    LET n == Len(elements)
        stop == IF limit < 0 THEN (IF n + limit < 0 THEN 0 ELSE n + limit)
                ELSE (IF limit < n THEN limit ELSE n)
    IN  SubSeq(elements, 1, stop)

\* book_data['id'] = idx + 1   (idx counts from 0; k counts from 1)
PdfBookId(k) == k

\* Mutant: the loop ends at the first element that gives no book.
RECURSIVE PdfLoop_stopAtSkip(_, _, _)
PdfLoop_stopAtSkip(elements, k, books) ==
    IF k > Len(elements) THEN books
    ELSE LET book_data == _extract_book_data(elements[k])
         IN  IF book_data.some
             THEN PdfLoop_stopAtSkip(elements, k + 1,
                                     Append(books, Merge(book_data.book, [id |-> PdfBookId(k)])))
             ELSE books

\* for idx, element in enumerate(book_elements[:limit]): ...
RECURSIVE PdfLoop(_, _, _)
PdfLoop(elements, k, books) ==
    IF k > Len(elements) THEN books
    ELSE LET book_data == _extract_book_data(elements[k])
         IN  PdfLoop(elements, k + 1,
                     IF book_data.some
                     THEN Append(books, Merge(book_data.book, [id |-> PdfBookId(k)]))
                     ELSE books)

\* `if response.status != 200`
PdfStatusOk(status) == status = 200

\* Mutant: total counts the result elements of the page.
search_books_totalElements(query, category, limit, http) ==
    IF http.kind = "timeout"
    THEN [success |-> FALSE, error |-> "Request timeout", books |-> <<>>]
    ELSE IF http.kind = "error"
    THEN [success |-> FALSE, error |-> http.msg, books |-> <<>>]
    ELSE IF ~PdfStatusOk(http.status)
    THEN [success |-> FALSE, error |-> "HTTP " \o ToString(http.status), books |-> <<>>]
    ELSE LET books == PdfLoop(SliceTo(http.elements, limit), 1, <<>>)
         IN  [success |-> TRUE, books |-> books, total |-> Len(http.elements)]

\* PdfDriveScraper.search_books from the answer of session.get on: http is a
\* raised asyncio.TimeoutError, another raised exception, or a response with
\* the div.file-right elements of its page.
search_books(query, category, limit, http) ==
    IF http.kind = "timeout"
    THEN [success |-> FALSE, error |-> "Request timeout", books |-> <<>>]
    ELSE IF http.kind = "error"
    THEN [success |-> FALSE, error |-> http.msg, books |-> <<>>]
    ELSE IF ~PdfStatusOk(http.status)
    THEN [success |-> FALSE, error |-> "HTTP " \o ToString(http.status), books |-> <<>>]
    ELSE LET books == PdfLoop(SliceTo(http.elements, limit), 1, <<>>)
         IN  [success |-> TRUE, books |-> books, total |-> Len(books)]

\* ------------------------------------------------------------ command line
\* int(s) for an optional sign and decimal digits; anything else raises
\* ValueError.
DigitVal(c) ==
    CASE c = "0" -> 0 [] c = "1" -> 1 [] c = "2" -> 2 [] c = "3" -> 3 [] c = "4" -> 4
      [] c = "5" -> 5 [] c = "6" -> 6 [] c = "7" -> 7 [] c = "8" -> 8 [] c = "9" -> 9
      [] OTHER -> -1

RECURSIVE DigitsVal(_)
DigitsVal(s) == IF Len(s) = 0 THEN 0
                ELSE 10 * DigitsVal(SubSeq(s, 1, Len(s) - 1)) + DigitVal(s[Len(s)])

PyInt(s) ==
    LET signed == Len(s) > 0 /\ s[1] \in {"-", "+"}
        digits == IF signed THEN Tail(s) ELSE s
    IN  IF Len(digits) = 0 \/ \E i \in 1..Len(digits) : DigitVal(digits[i]) < 0
        THEN [exc |-> "ValueError", val |-> 0]
        ELSE [exc |-> "none",
              val |-> IF signed /\ s[1] = "-" THEN 0 - DigitsVal(digits) ELSE DigitsVal(digits)]

\* ------------------------------------------------------------ query builder
\* str.split(): the maximal runs of characters that are no whitespace.
RECURSIVE SplitWords(_, _, _)
SplitWords(s, cur, acc) ==
    IF Len(s) = 0 THEN (IF Len(cur) > 0 THEN Append(acc, cur) ELSE acc)
    ELSE IF IsSpace(s[1])
         THEN SplitWords(Tail(s), <<>>, IF Len(cur) > 0 THEN Append(acc, cur) ELSE acc)
         ELSE SplitWords(Tail(s), Append(cur, s[1]), acc)

LongerThanTwo(word) == Len(word) > 2

\* [word.lower() for word in query.split() if len(word) > 2]
QueryWords(query) ==
    LET words == SelectSeq(SplitWords(query, <<>>, <<>>), LongerThanTwo)
    IN  [i \in 1..Len(words) |-> Lower(words[i])]

NotQuote(c) == c # "\""

\* query.replace('"', '').strip()
FullQuery(query) == Strip(SelectSeq(query, NotQuote))

category_map == <<
    << <<"s","c","i","e","n","c","e">>,
       << <<"s","c","i","e","n","c","e">>,
          <<"p","h","y","s","i","c","s">>,
          <<"c","h","e","m","i","s","t","r","y">>,
          <<"b","i","o","l","o","g","y">>,
          <<"s","c","i","e","n","t","i","f","i","c">> >> >>,
    << <<"m","a","t","h","e","m","a","t","i","c","s">>,
       << <<"m","a","t","h","e","m","a","t","i","c","s">>,
          <<"m","a","t","h">>,
          <<"a","l","g","e","b","r","a">>,
          <<"c","a","l","c","u","l","u","s">>,
          <<"g","e","o","m","e","t","r","y">>,
          <<"m","a","t","h","e","m","a","t","i","c","a","l">> >> >>,
    << <<"e","n","g","i","n","e","e","r","i","n","g">>,
       << <<"e","n","g","i","n","e","e","r","i","n","g">>,
          <<"t","e","c","h","n","o","l","o","g","y">>,
          <<"m","e","c","h","a","n","i","c","a","l">>,
          <<"e","l","e","c","t","r","i","c","a","l">>,
          <<"t","e","c","h","n","i","c","a","l">> >> >>,
    << <<"p","h","y","s","i","c","s">>,
       << <<"p","h","y","s","i","c","s">>,
          <<"m","e","c","h","a","n","i","c","s">>,
          <<"t","h","e","r","m","o","d","y","n","a","m","i","c","s">>,
          <<"q","u","a","n","t","u","m">>,
          <<"p","h","y","s","i","c","a","l">> >> >>,
    << <<"c","h","e","m","i","s","t","r","y">>,
       << <<"c","h","e","m","i","s","t","r","y">>,
          <<"o","r","g","a","n","i","c">>,
          <<"i","n","o","r","g","a","n","i","c">>,
          <<"b","i","o","c","h","e","m","i","s","t","r","y">>,
          <<"c","h","e","m","i","c","a","l">> >> >>,
    << <<"b","i","o","l","o","g","y">>,
       << <<"b","i","o","l","o","g","y">>,
          <<"g","e","n","e","t","i","c","s">>,
          <<"a","n","a","t","o","m","y">>,
          <<"b","o","t","a","n","y">>,
          <<"z","o","o","l","o","g","y">>,
          <<"b","i","o","l","o","g","i","c","a","l">> >> >>,
    << <<"c","o","m","p","u","t","e","r">>,
       << <<"c","o","m","p","u","t","e","r">>,
          <<"p","r","o","g","r","a","m","m","i","n","g">>,
          <<"s","o","f","t","w","a","r","e">>,
          <<"a","l","g","o","r","i","t","h","m","s">>,
          <<"c","o","m","p","u","t","i","n","g">> >> >>,
    << <<"p","r","o","g","r","a","m","m","i","n","g">>,
       << <<"p","r","o","g","r","a","m","m","i","n","g">>,
          <<"c","o","d","i","n","g">>,
          <<"s","o","f","t","w","a","r","e">>,
          <<"d","e","v","e","l","o","p","m","e","n","t">>,
          <<"c","o","d","e">> >> >>,
    << <<"h","i","s","t","o","r","y">>,
       << <<"h","i","s","t","o","r","y">>,
          <<"h","i","s","t","o","r","i","c","a","l">>,
          <<"a","n","c","i","e","n","t">>,
          <<"m","o","d","e","r","n">>,
          <<"c","h","r","o","n","i","c","l","e">> >> >>,
    << <<"l","i","t","e","r","a","t","u","r","e">>,
       << <<"l","i","t","e","r","a","t","u","r","e">>,
          <<"p","o","e","t","r","y">>,
          <<"f","i","c","t","i","o","n">>,
          <<"n","o","v","e","l","s">>,
          <<"l","i","t","e","r","a","r","y">>,
          <<"s","t","o","r","i","e","s">> >> >>,
    << <<"p","h","i","l","o","s","o","p","h","y">>,
       << <<"p","h","i","l","o","s","o","p","h","y">>,
          <<"e","t","h","i","c","s">>,
          <<"l","o","g","i","c">>,
          <<"m","e","t","a","p","h","y","s","i","c","s">>,
          <<"p","h","i","l","o","s","o","p","h","i","c","a","l">> >> >>,
    << <<"b","u","s","i","n","e","s","s">>,
       << <<"b","u","s","i","n","e","s","s">>,
          <<"m","a","n","a","g","e","m","e","n","t">>,
          <<"e","c","o","n","o","m","i","c","s">>,
          <<"f","i","n","a","n","c","e">>,
          <<"c","o","m","m","e","r","c","e">> >> >>,
    << <<"e","c","o","n","o","m","i","c","s">>,
       << <<"e","c","o","n","o","m","i","c","s">>,
          <<"f","i","n","a","n","c","e">>,
          <<"m","o","n","e","y">>,
          <<"t","r","a","d","e">>,
          <<"e","c","o","n","o","m","i","c">> >> >>
  >>
F_title == <<"t","i","t","l","e">>
F_subject == <<"s","u","b","j","e","c","t">>
F_creator == <<"c","r","e","a","t","o","r">>
F_description == <<"d","e","s","c","r","i","p","t","i","o","n">>
T_Or == <<" ","O","R"," ">>
T_And == <<" ","A","N","D"," ">>
T_SubjectColon == <<"s","u","b","j","e","c","t",":">>
T_Mediatype == <<"m","e","d","i","a","t","y","p","e",":","t","e","x","t","s">>
X1 == <<"-","c","o","l","l","e","c","t","i","o","n",":","s","o","f","t","w","a","r","e","h","i","s","t","o","r","y">>
X2 == <<"-","c","o","l","l","e","c","t","i","o","n",":","v","g","m","u","s","e","u","m">>

fields == <<F_title, F_subject, F_creator, F_description>>
\* Mutant: the two exclusions in the other order.
exclusions_reversed == <<X2, X1>>
exclusions == <<X1, X2>>
Quote == <<"\"">>

\* The concatenation of a sequence of sequences.
RECURSIVE Flatten(_)
Flatten(ss) == IF Len(ss) = 0 THEN <<>> ELSE ss[1] \o Flatten(Tail(ss))

\* Strategy 1: the phrase in title, description and subject.
PhraseStrategies(full_query) ==
    IF Len(full_query) = 0 THEN <<>>
    ELSE << F_title \o <<":">> \o Quote \o full_query \o Quote,
            F_description \o <<":">> \o Quote \o full_query \o Quote,
            F_subject \o <<":">> \o Quote \o full_query \o Quote >>

\* Strategy 2: field:(word), field:*word* and field:"word" for every field.
FieldQueries(word) ==
    Flatten([f \in 1..Len(fields) |->
               << fields[f] \o <<":", "(">> \o word \o <<")">>,
                  fields[f] \o <<":", "*">> \o word \o <<"*">>,
                  fields[f] \o <<":">> \o Quote \o word \o Quote >>])

WordStrategies(query_words) ==
    Flatten([w \in 1..Len(query_words) |-> FieldQueries(query_words[w])])

\* Strategy 3: title:"wi wj" and description:"wi wj" for every i < j.
PairQueries(query_words, i) ==
    Flatten([d \in 1..(Len(query_words) - i) |->
               LET pair == Quote \o query_words[i] \o <<" ">> \o query_words[i + d] \o Quote
               IN  << F_title \o <<":">> \o pair, F_description \o <<":">> \o pair >>])

PairStrategies(query_words) ==
    IF Len(query_words) > 1
    THEN Flatten([i \in 1..Len(query_words) |-> PairQueries(query_words, i)])
    ELSE <<>>

SearchStrategies(query) ==
    PhraseStrategies(FullQuery(query))
        \o WordStrategies(QueryWords(query))
        \o PairStrategies(QueryWords(query))

\* Mutant: the last synonym of the category is left out.
CategoryTerms_dropLast(category) ==
    IF category.t = "str" /\ Len(category.v) > 0
       /\ category.v # <<"a","l","l">> /\ category.v # <<"n","u","l","l">>
       /\ \E i \in 1..Len(category_map) : category_map[i][1] = category.v
    THEN LET terms == category_map[CHOOSE i \in 1..Len(category_map) :
                                       category_map[i][1] = category.v][2]
         IN  [i \in 1..(Len(terms) - 1) |-> T_SubjectColon \o terms[i]]
    ELSE <<>>

\* `if category and category != 'all' and category != 'null'` and
\* `if category in category_map`: the terms of the category, or none.
CategoryTerms(category) ==
    IF category.t = "str" /\ Len(category.v) > 0
       /\ category.v # <<"a","l","l">> /\ category.v # <<"n","u","l","l">>
       /\ \E i \in 1..Len(category_map) : category_map[i][1] = category.v
    THEN LET terms == category_map[CHOOSE i \in 1..Len(category_map) :
                                       category_map[i][1] = category.v][2]
         IN  [i \in 1..Len(terms) |-> T_SubjectColon \o terms[i]]
    ELSE <<>>

Group(terms) == <<"(">> \o Join(T_Or, terms) \o <<")">>

\* Mutant: the strategies group is appended also when there is no strategy.
SearchParts_alwaysGroup(query, category) ==
    <<Group(SearchStrategies(query))>>
    \o (IF Len(CategoryTerms(category)) > 0
        THEN <<Group(CategoryTerms(category))>> ELSE <<>>)
    \o <<T_Mediatype>>
    \o exclusions

\* search_parts, in the order they are appended.
SearchParts(query, category) ==
    (IF Len(query) > 0 /\ Len(SearchStrategies(query)) > 0
     THEN <<Group(SearchStrategies(query))>> ELSE <<>>)
    \o (IF Len(CategoryTerms(category)) > 0
        THEN <<Group(CategoryTerms(category))>> ELSE <<>>)
    \o <<T_Mediatype>>
    \o exclusions

\* search_query = ' AND '.join(search_parts)
SearchQuery(query, category) == Join(T_And, SearchParts(query, category))

\* ------------------------------------------------------------ inputs
S_search == <<"s","e","a","r","c","h">>
S_details == <<"d","e","t","a","i","l","s">>
S_null == <<"n","u","l","l">>
S_Algebra == <<"A","l","g","e","b","r","a">>
S_Optics == <<"O","p","t","i","c","s">>
S_GameManual == <<"G","a","m","e"," ","M","a","n","u","a","l"," ","v","2">>

\* sys.argv[2] of a search, sys.argv[1] of the PDF Drive program.
Queries == << <<"p","h","y","s","i","c","s">>,
              <<"q","u","a","n","t","u","m"," ","\"","f","i","e","l","d","\""," ","t","h","e","o","r","y">>,
              <<>> >>
\* The optional category argument.
Categories == << <<"a","l","l">>, S_null, <<"s","c","i","e","n","c","e">>,
                 <<"c","o","o","k","i","n","g">> >>
\* The optional limit argument.
LimitTokens == << <<"-","1">>, <<"0">>, <<"1">>, <<"1","5","0">>, <<"a","b","c">> >>
\* sys.argv[2] of a details request.
Identifiers == << <<"a","1">> >>

\* The provider documents a response is made of.
DocPool == <<
    \* 1: string creator, list subject and language
    JObj([identifier |-> JStr(<<"a","1">>), title |-> JStr(S_Algebra),
          creator |-> JStr(<<"E","u","l","e","r">>),
          subject |-> JList(<<JStr(<<"m","a","t","h">>), JStr(<<"a","l","g","e","b","r","a">>)>>),
          language |-> JList(<<JStr(<<"e","n","g">>), JStr(<<"l","a","t">>)>>),
          date |-> JStr(<<"1","7","7","0">>), downloads |-> JNum(12)]),
    \* 2: list creator, string subject, a description
    JObj([identifier |-> JStr(<<"b","2">>), title |-> JStr(S_Optics),
          creator |-> JList(<<JStr(<<"N","e","w","t","o","n">>), JStr(<<"G","a","u","s","s">>)>>),
          subject |-> JStr(<<"l","i","g","h","t">>),
          description |-> JStr(<<"O","n"," ","l","i","g","h","t">>),
          format |-> JList(<<JStr(<<"P","D","F">>)>>)]),
    \* 3: no identifier
    JObj([title |-> JStr(S_Algebra)]),
    \* 4: empty identifier, and a title that is no string
    JObj([identifier |-> JStr(<<>>), title |-> JNum(7)]),
    \* 5: empty title
    JObj([identifier |-> JStr(<<"c","3">>), title |-> JStr(<<>>)]),
    \* 6: no title
    JObj([identifier |-> JStr(<<"d","4">>)]),
    \* 7: a skip keyword in the title
    JObj([identifier |-> JStr(<<"e","5">>), title |-> JStr(S_GameManual)]),
    \* 8: a skip keyword inside a word of the title
    JObj([identifier |-> JStr(<<"f","6">>), title |-> JStr(<<"P","r","o","m","e","t","h","e","u","s">>)]),
    \* 9: a skip keyword in a list-valued description
    JObj([identifier |-> JStr(<<"g","7">>), title |-> JStr(S_Optics),
          description |-> JList(<<JStr(<<"C","D","-","R","O","M">>)>>)]),
    \* 10: a title that is a number
    JObj([identifier |-> JStr(<<"h","8">>), title |-> JNum(7)]),
    \* 11: a list field with an element that is no string
    JObj([identifier |-> JStr(<<"i","9">>), title |-> JStr(S_Optics),
          creator |-> JList(<<JNum(1)>>)]),
    \* 12: a document that is no object
    JStr(<<"x">>),
    \* 13: a null title
    JObj([identifier |-> JStr(<<"j","0">>), title |-> JNull])
  >>

\* The document arrays of up to MaxDocs documents, as indices into DocPool.
DocIndexSeqs == UNION { [1..n -> 1..Len(DocPool)] : n \in 0..MaxDocs }

DocsOf(s) == [i \in 1..Len(s) |-> DocPool[s[i]]]

\* {"response": {"docs": [...], "numFound": n}}
DocsBody(s) ==
    JObj([response |-> JObj([docs |-> JList(DocsOf(s)), numFound |-> JNum(3 * Len(s))])])

\* Response bodies of other shapes.
OddBodies == <<
    JNull,                                                        \* 1: null
    JNum(5),                                                      \* 2: 5
    JList(<<>>),                                                  \* 3: []
    JList(<<DocPool[1]>>),                                        \* 4: [doc]
    JStr(<<"o","k">>),                                            \* 5: "ok"
    EmptyObj,                                                     \* 6: {}
    JObj([items |-> JList(<<DocPool[1], DocPool[7]>>)]),          \* 7: {"items": [...]}
    JObj([items |-> JList(<<>>)]),                                \* 8: {"items": []}
    JObj([response |-> JList(<<>>)]),                             \* 9: {"response": []}
    JObj([response |-> EmptyObj]),                                \* 10: {"response": {}}
    JObj([response |-> JObj([docs |-> JObj([a |-> DocPool[1]])])]), \* 11: docs an object
    JObj([response |-> JObj([docs |-> JNum(3)])]),                \* 12: docs a number
    JObj([items |-> JNum(0)]),                                    \* 13: {"items": 0}
    JObj([response |-> JObj([docs |-> JNull, numFound |-> JNum(0)])]) \* 14: docs null
  >>

\* What requests.get / response.json() hand to the function.
HttpRaised(kind, msg) ==
    [kind |-> kind, status |-> 0, valid |-> FALSE,
     jsonErrIsRequestException |-> FALSE, msg |-> msg, json |-> JNull]
HttpStatus(status) ==
    [kind |-> "response", status |-> status, valid |-> FALSE,
     jsonErrIsRequestException |-> FALSE, msg |-> ToString(status) \o " Error", json |-> JNull]
HttpJson(status, json) ==
    [kind |-> "response", status |-> status, valid |-> TRUE,
     jsonErrIsRequestException |-> FALSE, msg |-> "", json |-> json]
\* A body that is no JSON: response.json() raises JSONDecodeError, a
\* RequestException in requests >= 2.27 and a plain ValueError before.
HttpNotJson(status, isRequestException) ==
    [kind |-> "response", status |-> status, valid |-> FALSE,
     jsonErrIsRequestException |-> isRequestException,
     msg |-> "Expecting value: line 1 column 1 (char 0)", json |-> JNull]

HttpFailures == << HttpRaised("timeout", "Read timed out. (read timeout=30)"),
                   HttpRaised("connection", "Connection refused"),
                   HttpStatus(404), HttpStatus(500), HttpStatus(503) >>

\* Statuses raise_for_status lets through.
PassStatuses == {200, 300}

\* Metadata responses.
MetaPool == <<
    JObj([metadata |-> JObj([title |-> JStr(S_Algebra),
                             creator |-> JList(<<JStr(<<"E","u","l","e","r">>), JStr(<<"G","a","u","s","s">>)>>),
                             subject |-> JStr(<<"m","a","t","h">>),
                             language |-> JList(<<JStr(<<"e","n","g">>), JStr(<<"l","a","t">>)>>)]),
          files |-> JList(<<
              JObj([name |-> JStr(<<"A","l","g","e","b","r","a",".","P","D","F">>),
                    source |-> JStr(<<"o","r","i","g","i","n","a","l">>)]),
              JObj([name |-> JStr(<<"a","l","g","e","b","r","a","_","o","r","i","g","i","n","a","l",".","t","x","t">>),
                    source |-> JStr(<<"d","e","r","i","v","a","t","i","v","e">>)]),
              JObj([name |-> JStr(<<"c","o","v","e","r",".","j","p","g">>),
                    source |-> JStr(<<"o","r","i","g","i","n","a","l">>)])>>)]),
    JObj([metadata |-> JObj([title |-> JStr(S_Optics), creator |-> JStr(<<"N","e","w","t","o","n">>)])]),
    EmptyObj,
    JList(<<>>),
    JNull,
    JObj([metadata |-> JObj([creator |-> JList(<<JNum(1)>>)])]),
    JObj([metadata |-> JStr(<<"x">>)]),
    JObj([metadata |-> EmptyObj, files |-> JList(<<JStr(<<"x">>)>>)]),
    JObj([metadata |-> EmptyObj, files |-> JList(<<JObj([name |-> JNum(5)])>>)])
  >>

\* The div.file-right elements a result page is made of.
ElementPool == <<
    [link |-> "ok", text |-> <<" ","O","p","t","i","c","s"," ">>,
     href |-> <<"/","o","p","t","i","c","s","-","e","1",".","h","t","m","l">>,
     author |-> << <<"N","e","w","t","o","n"," ">> >>],
    [link |-> "ok", text |-> S_Algebra,
     href |-> <<"a","l","g","e","b","r","a",".","h","t","m","l">>, author |-> <<>>],
    [link |-> "none", text |-> <<>>, href |-> <<>>, author |-> <<>>],
    [link |-> "nohref", text |-> S_Optics, href |-> <<>>, author |-> <<>>],
    [link |-> "ok", text |-> <<" "," ">>,
     href |-> <<"/","e","5",".","h","t","m","l">>, author |-> <<>>]
  >>

ElemIndexSeqs == UNION { [1..n -> 1..Len(ElementPool)] : n \in 0..MaxElems }
ElementsOf(s) == [i \in 1..Len(s) |-> ElementPool[s[i]]]

PdfRaised(kind, msg) == [kind |-> kind, status |-> 0, msg |-> msg, elements |-> <<>>]
PdfPage(status, elements) == [kind |-> "response", status |-> status, msg |-> "", elements |-> elements]

PdfFailures == << PdfRaised("timeout", ""),
                  PdfRaised("error", "Cannot connect to host www.pdfdrive.com:443"),
                  PdfRaised("error", "") >>
PdfStatuses == {201, 302, 404, 500}

\* ------------------------------------------------------------ state
VARIABLES
    prog,      \* the program of the current run: "none", "archive" or "pdf"
    argv,      \* sys.argv of the run
    pc,        \* "idle", "search", "details", "pdfsearch" (GET in flight) or "exited"
    call,      \* the arguments of the function the run called
    req,       \* the parameters of the GET the function issued
    gets,      \* GETs issued by the run
    http,      \* what the GET produced
    result,    \* the dict the function returned
    printed,   \* the JSON objects the run wrote to stdout
    exitCode,  \* the exit code of the run; -1 while it runs
    api,       \* lesson scripts: what the POST of the outline generator produced
    outline,   \* lesson scripts: the outline the generator returned
    status,    \* lesson scripts: "status" of the dict the create function returned
    threadPc,  \* lesson scripts: the daemon thread: "none", "started", "delivering" or "finished"
    delivered, \* lesson scripts: the outlines the delivery function was invoked with
    cleaned,   \* ai-lesson-bot: bot.cleanup() was executed
    botPc,        \* run_bot: "none", "display", "browser", "setup", "polling", "finally" or "done"
    display,      \* run_bot: the local display: "none", "created" or "started"
    driver,       \* run_bot: the local driver is set
    quits,        \* run_bot: the calls of driver.quit()
    stops,        \* run_bot: the calls of display.stop()
    session_time, \* run_bot: the local session_time
    polls,        \* run_bot: the iterations of the monitoring loop that began
    last_chat,    \* run_bot: the local last_chat
    latest,       \* run_bot: msgs[-1].text of the last poll, if it had one
    asked,        \* run_bot: the last poll called client.text_generation
    lastAnswered, \* run_bot: the last message text_generation was called for, if any
    storyPc,      \* storytelling: "none", "called" or "returned"
    storySystem,  \* storytelling: "enhanced" or "simple"
    concept,      \* storytelling: the concept generate_story_scenes was called with
    response,     \* storytelling: what model.generate_content produced
    scenes        \* storytelling: what generate_story_scenes returned

cliVars == <<prog, argv, pc, call, req, gets, http, result, printed, exitCode>>
lessonVars == <<api, outline, status, threadPc, delivered, cleaned>>
botVars == <<botPc, display, driver, quits, stops, session_time, polls,
             last_chat, latest, asked, lastAnswered>>
storyVars == <<storyPc, storySystem, concept, response, scenes>>
vars == <<cliVars, lessonVars, botVars, storyVars>>

NoCall == [fn |-> "none"]
NoReq == [url |-> "none"]
NoHttp == [kind |-> "none"]
NoResult == [success |-> FALSE, error |-> "", none |-> TRUE]
NoMessage == [has |-> FALSE, text |-> <<>>]
NoResponse == [kind |-> "none"]

Init ==
    /\ prog = "none" /\ argv = <<>> /\ pc = "idle"
    /\ call = NoCall /\ req = NoReq /\ gets = 0 /\ http = NoHttp
    /\ result = NoResult /\ printed = <<>> /\ exitCode = -1
    /\ api = NoHttp /\ outline = <<>> /\ status = "none"
    /\ threadPc = "none" /\ delivered = <<>> /\ cleaned = FALSE
    /\ botPc = "none" /\ display = "none" /\ driver = FALSE
    /\ quits = 0 /\ stops = 0 /\ session_time = 0 /\ polls = 0
    /\ last_chat = <<>> /\ latest = NoMessage /\ asked = FALSE
    /\ lastAnswered = NoMessage
    /\ storyPc = "none" /\ storySystem = "none"
    /\ concept = <<>>
    /\ response = NoResponse /\ scenes = <<>>

\* The run ends without having called a function.
Exit(p, a, out, code) ==
    /\ prog' = p /\ argv' = a /\ pc' = "exited"
    /\ call' = NoCall /\ req' = NoReq /\ gets' = 0 /\ http' = NoHttp
    /\ result' = NoResult /\ printed' = out /\ exitCode' = code
    /\ UNCHANGED <<lessonVars, botVars, storyVars>>

\* The run calls a function, which issues its GET.
Call(p, a, where, c, r) ==
    /\ prog' = p /\ argv' = a /\ pc' = where
    /\ call' = c /\ req' = r /\ gets' = 1 /\ http' = NoHttp
    /\ result' = NoResult /\ printed' = <<>> /\ exitCode' = -1
    /\ UNCHANGED <<lessonVars, botVars, storyVars>>

\* Mutant: a request that failed is sent a second time.
Return_retry(h, d) ==
    /\ http' = h /\ result' = d /\ printed' = <<d>>
    /\ exitCode' = 0 /\ pc' = "exited"
    /\ gets' = IF d.success THEN gets ELSE gets + 1
    /\ UNCHANGED <<prog, argv, call, req>>
    /\ UNCHANGED <<lessonVars, botVars, storyVars>>

\* The function returns d, the run prints it and ends.
Return(h, d) ==
    /\ http' = h /\ result' = d /\ printed' = <<d>>
    /\ exitCode' = 0 /\ pc' = "exited"
    /\ UNCHANGED <<prog, argv, call, req, gets>>
    /\ UNCHANGED <<lessonVars, botVars, storyVars>>

\* The exit code of a run that calls sys.exit(1).
ExitFailure == 1
\* limit when sys.argv carries none.
DefaultLimit == 20

\* archive-org-search.py, __main__, up to the GET of the function it calls.
\* An uncaught ValueError of int() ends the run with a traceback and code 1.
ArchiveMain(a) ==
    LET n == Len(a)
        limit == IF n > 4 THEN PyInt(a[5]) ELSE [exc |-> "none", val |-> DefaultLimit]
        category == IF n > 3 THEN JStr(a[4]) ELSE JNull
    IN  IF n < 2
        THEN Exit("archive", a, <<[success |-> FALSE, error |-> "No command provided"]>>, ExitFailure)
        ELSE IF a[2] = S_search
        THEN IF n < 3
             THEN Exit("archive", a, <<[success |-> FALSE, error |-> "Query required for search"]>>, ExitFailure)
             ELSE IF limit.exc # "none"
             THEN Exit("archive", a, <<>>, 1)
             ELSE Call("archive", a, "search",
                       [fn |-> "search", query |-> a[3], category |-> category, limit |-> limit.val],
                       [url |-> "https://archive.org/advancedsearch.php",
                        q |-> SearchQuery(a[3], category),
                        sort |-> "downloads desc",
                        rows |-> Rows(limit.val), output |-> "json", timeout |-> 30])
        ELSE IF a[2] = S_details
        THEN IF n < 3
             THEN Exit("archive", a, <<[success |-> FALSE, error |-> "Identifier required for details"]>>, ExitFailure)
             ELSE Call("archive", a, "details",
                       [fn |-> "details", identifier |-> a[3]],
                       [url |-> "https://archive.org/metadata/", id |-> a[3], timeout |-> 15])
        ELSE Exit("archive", a, <<[success |-> FALSE, error |-> "Unknown command"]>>, ExitFailure)

\* params of search_books: category is sent when it is truthy.
PdfParams(query, category) ==
    LET params == [url |-> "https://www.pdfdrive.com/search", q |-> query,
                   searchin |-> "en", more |-> "true", timeout |-> 30]
    IN  IF Truthy(category)
        THEN Merge(params, [category |-> category.v])
        ELSE params

\* pdf-drive-scraper.py, main, up to the GET of search_books.  Without a
\* query main prints the usage error and returns, so the run ends with code 0.
PdfMain(a) ==
    LET n == Len(a)
        category == IF n > 2 /\ a[3] # S_null THEN JStr(a[3]) ELSE JNull
        limit == IF n > 3 THEN PyInt(a[4]) ELSE [exc |-> "none", val |-> DefaultLimit]
    IN  IF n < 2
        THEN Exit("pdf", a, <<[success |-> FALSE,
                              error |-> "Usage: python pdf-drive-scraper.py <search_query> [category] [limit]"]>>, 0)
        ELSE IF limit.exc # "none"
        THEN Exit("pdf", a, <<>>, 1)
        ELSE Call("pdf", a, "pdfsearch",
                  [fn |-> "search_books", query |-> a[2], category |-> category, limit |-> limit.val],
                  PdfParams(a[2], category))

\* The command lines of the archive program.
ArchiveStart ==
    /\ pc = "idle"
    /\ \/ ArchiveMain(<<"archive-org-search.py">>)
       \/ \E c \in {S_search, S_details, <<"b","o","g","u","s">>} :
            ArchiveMain(<<"archive-org-search.py", c>>)
       \/ \E q \in 1..Len(Queries) :
            ArchiveMain(<<"archive-org-search.py", S_search, Queries[q]>>)
       \/ \E q \in 1..Len(Queries), c \in 1..Len(Categories) :
            ArchiveMain(<<"archive-org-search.py", S_search, Queries[q], Categories[c]>>)
       \/ \E k \in 1..Len(category_map) :
            ArchiveMain(<<"archive-org-search.py", S_search, Queries[1], category_map[k][1]>>)
       \/ \E l \in 1..Len(LimitTokens) :
            ArchiveMain(<<"archive-org-search.py", S_search, Queries[1], Categories[1], LimitTokens[l]>>)
       \/ \E i \in 1..Len(Identifiers) :
            ArchiveMain(<<"archive-org-search.py", S_details, Identifiers[i]>>)

\* The command lines of the PDF Drive program.
PdfStart ==
    /\ pc = "idle"
    /\ \/ PdfMain(<<"pdf-drive-scraper.py">>)
       \/ \E q \in 1..Len(Queries) : PdfMain(<<"pdf-drive-scraper.py", Queries[q]>>)
       \/ \E q \in 1..Len(Queries), c \in 1..Len(Categories) :
            PdfMain(<<"pdf-drive-scraper.py", Queries[q], Categories[c]>>)
       \/ \E l \in 1..Len(LimitTokens) :
            PdfMain(<<"pdf-drive-scraper.py", Queries[1], Categories[1], LimitTokens[l]>>)

\* search_archive_org_books returns and __main__ prints its result.
SearchReturn(h) ==
    Return(h, search_archive_org_books(call.query, call.category, call.limit, h))

ArchiveSearchReturn ==
    /\ pc = "search"
    /\ \/ \E i \in 1..Len(HttpFailures) : SearchReturn(HttpFailures[i])
       \/ \E st \in PassStatuses, b \in BOOLEAN : SearchReturn(HttpNotJson(st, b))
       \/ \E s \in DocIndexSeqs : SearchReturn(HttpJson(200, DocsBody(s)))
       \/ \E s \in {x \in DocIndexSeqs : Len(x) <= 1} : SearchReturn(HttpJson(300, DocsBody(s)))
       \/ \E i \in 1..Len(OddBodies) : SearchReturn(HttpJson(200, OddBodies[i]))

\* get_book_details returns and __main__ prints its result.
DetailsReturn(h) == Return(h, get_book_details(call.identifier, h))

ArchiveDetailsReturn ==
    /\ pc = "details"
    /\ \/ \E i \in 1..Len(HttpFailures) : DetailsReturn(HttpFailures[i])
       \/ DetailsReturn(HttpNotJson(200, TRUE))
       \/ \E st \in PassStatuses, i \in 1..Len(MetaPool) : DetailsReturn(HttpJson(st, MetaPool[i]))

\* search_books returns and main prints its result.
PdfReturn(h) == Return(h, search_books(call.query, call.category, call.limit, h))

PdfSearchReturn ==
    /\ pc = "pdfsearch"
    /\ \/ \E i \in 1..Len(PdfFailures) : PdfReturn(PdfFailures[i])
       \/ \E s \in ElemIndexSeqs : PdfReturn(PdfPage(200, ElementsOf(s)))
       \/ \E st \in PdfStatuses, s \in {x \in ElemIndexSeqs : Len(x) <= 1} :
            PdfReturn(PdfPage(st, ElementsOf(s)))

Next ==
    \/ PdfStart
    \/ PdfSearchReturn
    \/ ArchiveStart
    \/ ArchiveSearchReturn
    \/ ArchiveDetailsReturn

Spec == Init /\ [][Next]_vars

\* ------------------------------------------------------------ properties
\* A search function has returned.
ArchiveSearchDone == pc = "exited" /\ call.fn = "search"
PdfSearchDone == pc = "exited" /\ call.fn = "search_books"
DetailsDone == pc = "exited" /\ call.fn = "details"
SearchDone == ArchiveSearchDone \/ PdfSearchDone

\* The provider answered the archive search with a JSON object that holds a
\* document array, under response.docs or under items.
HasDocArray ==
    /\ http.kind = "response" /\ http.valid /\ http.json.t = "obj"
    /\ \/ /\ "response" \in DOMAIN http.json.v
          /\ http.json.v["response"].t = "obj"
          /\ "docs" \in DOMAIN http.json.v["response"].v
          /\ http.json.v["response"].v["docs"].t = "list"
       \/ /\ "response" \notin DOMAIN http.json.v
          /\ "items" \in DOMAIN http.json.v
          /\ http.json.v["items"].t = "list"

\* That document array.
ProviderDocs ==
    IF "response" \in DOMAIN http.json.v
    THEN http.json.v["response"].v["docs"].v
    ELSE http.json.v["items"].v

HasIdentifier(d) ==
    /\ d.t = "obj" /\ "identifier" \in DOMAIN d.v
    /\ d.v["identifier"].t = "str" /\ Len(d.v["identifier"].v) > 0

IsKeyword(w) == \E i \in 1..Len(skip_keywords) : skip_keywords[i] = w

\* A skip keyword occurs in the text, whatever the case of its letters.
Denylisted(text) ==
    \E i \in 1..Len(text), j \in 1..Len(text) :
        i <= j /\ IsKeyword(Lower(SubSeq(text, i, j)))

TitleDenylisted(d) ==
    /\ d.t = "obj" /\ "title" \in DOMAIN d.v
    /\ d.v["title"].t = "str" /\ Denylisted(d.v["title"].v)

DescriptionDenylisted(d) ==
    /\ d.t = "obj" /\ "description" \in DOMAIN d.v
    /\ Denylisted(PyStr(d.v["description"]))

Kept(d) == HasIdentifier(d) /\ ~TitleDenylisted(d) /\ ~DescriptionDenylisted(d)

IdentifiersOf(docs) == [i \in 1..Len(docs) |-> docs[i].v["identifier"]]
BookIdentifiers(books) == [i \in 1..Len(books) |-> books[i].identifier]

\* C1: every search returns at most `limit` books, and so none for a limit
\* below 1.
C1_CountAtMostLimit ==
    SearchDone => Len(result.books) <= (IF call.limit < 0 THEN 0 ELSE call.limit)

\* C2: every book a search returns has a non-empty title.
C2_TitleNonEmpty ==
    /\ ArchiveSearchDone =>
         \A k \in 1..Len(result.books) :
            result.books[k].title.t = "str" /\ Len(result.books[k].title.v) > 0
    /\ PdfSearchDone =>
         \A k \in 1..Len(result.books) : Len(result.books[k].title) > 0

\* C3: every book of an Archive.org result has a non-empty identifier, and
\* the books are exactly the provider documents that have one and are not
\* denylisted, in the provider's order: a document without identifier is
\* left out and takes no other document with it.
C3_IdentifierSkip ==
    ArchiveSearchDone =>
        /\ \A k \in 1..Len(result.books) :
              /\ result.books[k].identifier.t = "str"
              /\ Len(result.books[k].identifier.v) > 0
        /\ (result.success /\ HasDocArray) =>
              BookIdentifiers(result.books) = IdentifiersOf(SelectSeq(ProviderDocs, Kept))

\* A document without identifier was skipped next to one that was kept.
C3_Witness ==
    /\ ArchiveSearchDone /\ result.success /\ HasDocArray
    /\ Len(result.books) > 0
    /\ \E i \in 1..Len(ProviderDocs) : ~HasIdentifier(ProviderDocs[i])

\* The provider's field is absent, a string or a list: the shapes of a
\* RawResult field.
RawShape(d, key) == key \notin DOMAIN d.v \/ d.v[key].t \in {"str", "list"}

\* out is what the output shows for the provider's field d[key]: never a
\* list, a string for a field of a raw shape, and for a list of strings
\* its elements with ', ' between them.
Flattened(d, key, out) ==
    /\ out.t # "list"
    /\ RawShape(d, key) => out.t = "str"
    /\ (key \in DOMAIN d.v /\ d.v[key].t = "list") =>
          /\ Len(d.v[key].v) = 0 => out.v = <<>>
          /\ Len(d.v[key].v) = 1 => out.v = d.v[key].v[1].v
          /\ Len(d.v[key].v) = 2 =>
                out.v = d.v[key].v[1].v \o <<",", " ">> \o d.v[key].v[2].v

\* C4: author, subject and language of every Archive.org book, and creator,
\* subject and language of the details record, are single strings; a
\* list-valued provider field is shown as its elements joined with ', '.
C4_ListsFlattened ==
    /\ (ArchiveSearchDone /\ result.success /\ HasDocArray) =>
          \A k \in 1..Len(result.books) : \A i \in 1..Len(ProviderDocs) :
             (Kept(ProviderDocs[i])
                /\ ProviderDocs[i].v["identifier"] = result.books[k].identifier) =>
                 /\ Flattened(ProviderDocs[i], "creator", result.books[k].author)
                 /\ Flattened(ProviderDocs[i], "subject", result.books[k].subject)
                 /\ Flattened(ProviderDocs[i], "language", result.books[k].language)
    /\ (DetailsDone /\ result.success) =>
          /\ Flattened(http.json.v["metadata"], "creator", result.creator)
          /\ Flattened(http.json.v["metadata"], "subject", result.subject)
          /\ Flattened(http.json.v["metadata"], "language", result.language)

\* A book made of a document with a two-element creator list, and a details
\* record made of metadata with a two-element language list.
C4_Witness ==
    \/ /\ ArchiveSearchDone /\ result.success /\ HasDocArray
       /\ \E k \in 1..Len(result.books) :
             result.books[k].author.v = <<"N","e","w","t","o","n",",", " ","G","a","u","s","s">>
    \/ /\ DetailsDone /\ result.success
       /\ result.language.v = <<"e","n","g",",", " ","l","a","t">>

\* The provider answered successfully and with no document.
ZeroDocuments ==
    \/ /\ ArchiveSearchDone /\ http.kind = "response" /\ http.status = 200
       /\ HasDocArray /\ Len(ProviderDocs) = 0
    \/ /\ PdfSearchDone /\ http.kind = "response" /\ http.status = 200
       /\ Len(http.elements) = 0

\* C5: a successful provider answer with zero documents gives
\* success = true, books = [] and total = 0.
C5_ZeroDocumentsSucceed ==
    ZeroDocuments =>
        /\ result.success
        /\ Len(result.books) = 0
        /\ "total" \in DOMAIN result /\ result.total = 0

C5_Witness == ZeroDocuments /\ result.success

\* The shape {success: false, error: <non-empty>, books: []}.
IsFailure(d) ==
    /\ ~d.success
    /\ "error" \in DOMAIN d /\ d.error # ""
    /\ "books" \in DOMAIN d /\ Len(d.books) = 0

\* The request timed out, or the provider answered with a status outside 2xx.
TimeoutOrNon2xx ==
    \/ http.kind = "timeout"
    \/ http.kind = "response" /\ ~(200 <= http.status /\ http.status < 300)

\* C6: on a timeout or a non-2xx status the search returns success = false,
\* a non-empty error and books = [].
C6_FailureOnTimeoutOrNon2xx ==
    (SearchDone /\ TimeoutOrNon2xx) => IsFailure(result)

\* A list-valued field of d with an element that is no string.
BadList(d, key) ==
    /\ key \in DOMAIN d.v /\ d.v[key].t = "list"
    /\ \E i \in 1..Len(d.v[key].v) : d.v[key].v[i].t # "str"

NonStringTitle(d) == "title" \in DOMAIN d.v /\ d.v["title"].t # "str"

\* The document has an unexpected shape: it is no object, its title is no
\* string, or one of its list fields has an element that is no string.
MalformedDoc(d) ==
    \/ d.t # "obj"
    \/ NonStringTitle(d)
    \/ \E key \in {"creator", "subject", "language", "format"} : BadList(d, key)

\* The loop raises on the document when it reaches it: the document is no
\* object, or it has an identifier and a title that is no string, or it has
\* an identifier, is not denylisted and has a bad list field.
RaisingDoc(d) ==
    \/ d.t # "obj"
    \/ HasIdentifier(d) /\ NonStringTitle(d)
    \/ /\ HasIdentifier(d) /\ ~NonStringTitle(d)
       /\ ~TitleDenylisted(d) /\ ~DescriptionDenylisted(d)
       /\ \E key \in {"creator", "subject", "language", "format"} : BadList(d, key)

\* The response came through raise_for_status and is no valid JSON, or is
\* JSON of an unexpected shape.
MalformedResponse ==
    /\ http.kind = "response" /\ ~RaisesForStatus(http.status)
    /\ \/ ~http.valid
       \/ http.json.t # "obj"
       \/ HasDocArray /\ \E i \in 1..Len(ProviderDocs) : MalformedDoc(ProviderDocs[i])

\* search_archive_org_books returned a dict of one of its two shapes, and the
\* run printed it and ended with code 0: no exception left the function.
ReturnedNormally ==
    /\ exitCode = 0 /\ printed = <<result>>
    /\ "none" \notin DOMAIN result
    /\ IsFailure(result) \/ (result.success /\ "books" \in DOMAIN result)

C8_DenylistedTitleExcluded ==
    ArchiveSearchDone =>
        /\ \A k \in 1..Len(result.books) :
              /\ ~Denylisted(result.books[k].title.v)
              /\ result.books[k].title.v # S_GameManual
        /\ HasDocArray =>
              \A i \in 1..Len(ProviderDocs) :
                 (HasIdentifier(ProviderDocs[i]) /\ TitleDenylisted(ProviderDocs[i])) =>
                    \A k \in 1..Len(result.books) :
                       result.books[k].identifier # ProviderDocs[i].v["identifier"]

\* 'Game Manual v2' came with an identifier, next to a document that was kept.
C8_Witness ==
    /\ ArchiveSearchDone /\ result.success /\ HasDocArray
    /\ Len(result.books) > 0
    /\ \E i \in 1..Len(ProviderDocs) :
          /\ HasIdentifier(ProviderDocs[i])
          /\ "title" \in DOMAIN ProviderDocs[i].v
          /\ ProviderDocs[i].v["title"].t = "str"
          /\ ProviderDocs[i].v["title"].v = S_GameManual

\* A required command-line argument is missing: the archive program got no
\* command it knows, or no query or identifier for the command; the PDF
\* Drive program got no query.
RequiredArgumentMissing ==
    \/ Len(argv) < 2
    \/ prog = "archive" /\ argv[2] \notin {S_search, S_details}
    \/ prog = "archive" /\ Len(argv) < 3

\* C9: a run exits with a non-zero code only when a required argument is
\* missing.
C9_NonZeroOnlyForMissingArgument ==
    (pc = "exited" /\ exitCode # 0) => RequiredArgumentMissing

\* The run is one of the search command.
SearchCommandRun ==
    /\ pc = "exited"
    /\ \/ prog = "pdf"
       \/ prog = "archive" /\ Len(argv) >= 2 /\ argv[2] = S_search

\* C10 as claimed: the object the search command prints for the result of
\* its search, a success or a failure, has the keys success, books and total.
C10_ThreeKeysAlways ==
    (SearchCommandRun /\ SearchDone) =>
        \A i \in 1..Len(printed) : {"success", "books", "total"} \subseteq DOMAIN printed[i]

\* C10, amended: every object the search command prints has the key
\* success.  The object printed after the search function ran also has
\* books; it has total exactly when success is true, and error when success
\* is false.
C10_KeysOfPrinted ==
    SearchCommandRun =>
        \A i \in 1..Len(printed) :
            /\ "success" \in DOMAIN printed[i]
            /\ SearchDone =>
                  /\ "books" \in DOMAIN printed[i]
                  /\ ("total" \in DOMAIN printed[i]) <=> printed[i].success
                  /\ ~printed[i].success => "error" \in DOMAIN printed[i]

\* A failure result was printed.
C10_Witness ==
    /\ SearchCommandRun /\ SearchDone
    /\ Len(printed) = 1 /\ ~printed[1].success

\* The body is a JSON object that holds neither response.docs nor items.
NoDocumentArray ==
    /\ http.kind = "response" /\ ~RaisesForStatus(http.status)
    /\ http.valid /\ http.json.t = "obj"
    /\ "items" \notin DOMAIN http.json.v
    /\ \/ "response" \notin DOMAIN http.json.v
       \/ http.json.v["response"].t # "obj"
       \/ "docs" \notin DOMAIN http.json.v["response"].v

\* C11: a JSON body without document array is an empty result set: the
\* search returns success = true and books = [].
C11_AbsentArrayIsEmpty ==
    (ArchiveSearchDone /\ NoDocumentArray) =>
        (result.success /\ Len(result.books) = 0)

S_FilterOnly == <<"m","e","d","i","a","t","y","p","e",":","t","e","x","t","s"," ","A","N","D"," ","-","c","o","l","l","e","c","t","i","o","n",":","s","o","f","t","w","a","r","e","h","i","s","t","o","r","y"," ","A","N","D"," ","-","c","o","l","l","e","c","t","i","o","n",":","v","g","m","u","s","e","u","m">>
S_SubjectOpen == <<"(","s","u","b","j","e","c","t",":">>

\* search_archive_org_books was called and has built the query of its GET.
QueryBuilt == call.fn = "search" /\ gets = 1

\* The last n characters of s.
Suffix(s, n) == SubSeq(s, Len(s) - n + 1, Len(s))

\* The text of q before its last n characters.
Before(s, n) == SubSeq(s, 1, Len(s) - n)

\* q is made of filter terms only: it is the three mandatory terms, or one
\* group of subject: terms AND-ed in front of them, and it matches no text
\* field and quotes nothing.
FilterOnly(q) ==
    /\ Len(q) >= Len(S_FilterOnly)
    /\ Suffix(q, Len(S_FilterOnly)) = S_FilterOnly
    /\ \/ Len(q) = Len(S_FilterOnly)
       \/ /\ Len(q) > Len(S_FilterOnly) + Len(S_SubjectOpen) + Len(T_And)
          /\ SubSeq(q, 1, Len(S_SubjectOpen)) = S_SubjectOpen
          /\ Suffix(Before(q, Len(S_FilterOnly)), Len(T_And) + 1) = <<")">> \o T_And
    /\ ~Contains(q, F_title \o <<":">>)
    /\ ~Contains(q, F_creator \o <<":">>)
    /\ ~Contains(q, F_description \o <<":">>)
    /\ ~Contains(q, Quote) /\ ~Contains(q, <<"*">>) /\ ~Contains(q, <<"(", ")">>)

\* C12: for an empty query the built query holds no text-match group, only
\* the optional category group, mediatype:texts and the two collection
\* exclusions, and the function goes on to its GET.
C12_EmptyQueryFilterOnly ==
    (call.fn = "search" /\ call.query = <<>>) => (QueryBuilt /\ FilterOnly(req.q))

\* The empty query came with the category science, whose group is in front.
C12_Witness ==
    /\ QueryBuilt /\ call.query = <<>>
    /\ call.category.t = "str" /\ call.category.v = <<"s","c","i","e","n","c","e">>
    /\ Len(req.q) > Len(S_FilterOnly)

\* C13: whatever the query and the category, the built query ends with
\* mediatype:texts, -collection:softwarehistory and -collection:vgmuseum,
\* in this order and joined with ' AND '; the groups in front of them,
\* when there are any, end with ')' and are joined to them with ' AND '.
C13_MandatoryPartsLast ==
    QueryBuilt =>
        /\ Len(req.q) >= Len(S_FilterOnly)
        /\ Suffix(req.q, Len(S_FilterOnly)) = S_FilterOnly
        /\ Len(req.q) > Len(S_FilterOnly) =>
              /\ Len(req.q) > Len(S_FilterOnly) + Len(T_And) + 1
              /\ Suffix(Before(req.q, Len(S_FilterOnly)), Len(T_And) + 1)
                    = <<")", " ", "A", "N", "D", " ">>
              /\ req.q[1] = "("

\* A query with quotes in it and a category of the map were given.
C13_Witness ==
    /\ QueryBuilt /\ Contains(call.query, Quote)
    /\ call.category.t = "str" /\ call.category.v = <<"s","c","i","e","n","c","e">>
    /\ Len(req.q) > Len(S_FilterOnly)

\* The category is one of the keys of category_map.
IsMapKey(category) ==
    category.t = "str" /\ \E k \in 1..Len(category_map) : category_map[k][1] = category.v

\* The synonyms of a key of category_map.
Synonyms(category) ==
    category_map[CHOOSE k \in 1..Len(category_map) : category_map[k][1] = category.v][2]

\* The sum of the lengths of the strings of a sequence.
RECURSIVE TotalLen(_)
TotalLen(ss) == IF Len(ss) = 0 THEN 0 ELSE Len(ss[1]) + TotalLen(Tail(ss))

\* What the built query holds in front of ' AND mediatype:texts AND ...'.
GroupsOf(q) ==
    IF Len(q) > Len(S_FilterOnly) + Len(T_And)
    THEN Before(q, Len(S_FilterOnly) + Len(T_And)) ELSE <<>>

\* The groups end with a category group: the text-match group ends with a
\* quoted phrase, '...")', and a category group with a bare term.
EndsWithCategoryGroup(p) == Len(p) > 1 /\ p[Len(p)] = ")" /\ p[Len(p) - 1] # "\""

\* Where the last group of p opens.
LastOpen(p) == CHOOSE i \in 1..Len(p) : p[i] = "(" /\ \A j \in (i + 1)..Len(p) : p[j] # "("

\* g is the OR-combination of subject:<term> over the terms, and nothing else.
IsSubjectGroup(g, terms) ==
    /\ SubSeq(g, 1, Len(S_SubjectOpen) + Len(terms[1])) = S_SubjectOpen \o terms[1]
    /\ \A i \in 1..Len(terms) : Contains(g, T_SubjectColon \o terms[i])
    /\ \A i \in 1..(Len(terms) - 1) :
          Contains(g, terms[i] \o T_Or \o T_SubjectColon \o terms[i + 1])
    /\ Len(g) = 2 + TotalLen(terms) + Len(terms) * Len(T_SubjectColon)
                  + (Len(terms) - 1) * Len(T_Or)

\* C14: for a category that is a key of category_map the built query has
\* one group of subject:<term> over all synonyms of the category, OR-ed,
\* AND-ed between the text-match group (when there is one) and
\* mediatype:texts; for no category, 'all', 'null' and any other category
\* it has no category group.
C14_CategoryGroup ==
    QueryBuilt =>
        LET p == GroupsOf(req.q)
        IN  IF IsMapKey(call.category)
            THEN /\ EndsWithCategoryGroup(p)
                 /\ IsSubjectGroup(SubSeq(p, LastOpen(p), Len(p)), Synonyms(call.category))
                 /\ \/ LastOpen(p) = 1
                    \/ /\ LastOpen(p) > Len(T_And) + 2
                       /\ SubSeq(p, LastOpen(p) - Len(T_And) - 2, LastOpen(p) - 1)
                             = <<"\"", ")">> \o T_And
                 /\ ~Contains(SubSeq(p, 1, LastOpen(p) - 1), S_SubjectOpen)
            ELSE ~EndsWithCategoryGroup(p)

\* A query came with the category mathematics, which has six synonyms.
C14_Witness ==
    /\ QueryBuilt /\ Len(call.query) > 0
    /\ call.category.t = "str"
    /\ call.category.v = <<"m","a","t","h","e","m","a","t","i","c","s">>
    /\ EndsWithCategoryGroup(GroupsOf(req.q))

\* The ways to pick n of m inputs in their order: the strictly increasing
\* maps of 1..n into 1..m.
IncreasingChoices(n, m) ==
    { f \in [1..n -> 1..m] : \A a \in 1..n : \A b \in 1..n : a < b => f[a] < f[b] }

\* Book k of the archive result was made of provider document i.
BookOfDoc(k, i) ==
    /\ HasIdentifier(ProviderDocs[i])
    /\ result.books[k].identifier = ProviderDocs[i].v["identifier"]
    /\ "title" \in DOMAIN ProviderDocs[i].v =>
          result.books[k].title = ProviderDocs[i].v["title"]

\* Book k of the PDF Drive result was made of result element i.
BookOfElement(k, i) ==
    /\ http.elements[i].link = "ok"
    /\ result.books[k].url = UrlJoin(http.elements[i].href)
    /\ result.books[k].title = Strip(http.elements[i].text)

\* C15: the books of a result are an order-preserving subsequence of the
\* provider's documents (of the page's result elements): every book comes
\* from a document of its own, and the books stand in the order of their
\* documents.
C15_ProviderOrder ==
    /\ (ArchiveSearchDone /\ Len(result.books) > 0) =>
          /\ HasDocArray
          /\ \E f \in IncreasingChoices(Len(result.books), Len(ProviderDocs)) :
                \A k \in 1..Len(result.books) : BookOfDoc(k, f[k])
    /\ (PdfSearchDone /\ Len(result.books) > 0) =>
          /\ http.kind = "response"
          /\ \E f \in IncreasingChoices(Len(result.books), Len(http.elements)) :
                \A k \in 1..Len(result.books) : BookOfElement(k, f[k])

\* Two books made of two different documents.
C15_Witness ==
    /\ ArchiveSearchDone /\ Len(result.books) = 2
    /\ result.books[1].identifier # result.books[2].identifier

\* C16: the k-th book of a search result has id k, in both programs, also
\* when documents or result elements were skipped.
C16_SequenceIds ==
    SearchDone => \A k \in 1..Len(result.books) : result.books[k].id = k

\* The function failed after it had made a book: the loop raised on a later
\* document.
FailedAfterBook ==
    /\ ArchiveSearchDone /\ ~result.success /\ HasDocArray
    /\ Len(ProviderDocs) > 1
    /\ Kept(ProviderDocs[1]) /\ ~RaisingDoc(ProviderDocs[1])
    /\ \E i \in 2..Len(ProviderDocs) : RaisingDoc(ProviderDocs[i])

\* C17: a result with success = false has books = []; the books made
\* before the failure are not returned.
C17_FailureHasNoBooks ==
    (SearchDone /\ ~result.success) =>
        ("books" \in DOMAIN result /\ result.books = <<>>)

C17_Witness == FailedAfterBook /\ result.books = <<>>

\* A function was called: its GET is in flight, or the function has returned.
Invoked == call.fn # "none"

\* The endpoint the function of the run sends its GET to.
EndpointOf(fn) ==
    CASE fn = "search"       -> "https://archive.org/advancedsearch.php"
      [] fn = "details"      -> "https://archive.org/metadata/"
      [] fn = "search_books" -> "https://www.pdfdrive.com/search"

\* C18: an invocation of a search or of details issues one GET, to the
\* endpoint of the function, and the number of GETs of the run never
\* changes afterwards: the request is not repeated when it succeeded and
\* not retried when it failed.
C18_OneGetPerInvocation ==
    /\ [](Invoked => (gets = 1 /\ req.url = EndpointOf(call.fn)))
    /\ [](~Invoked => gets = 0)
    /\ [][Invoked => (gets' = gets /\ req' = req)]_vars

\* A details request failed and the run ended with the one GET it had made.
C18_Witness ==
    /\ DetailsDone /\ ~result.success /\ http.kind # "response" /\ gets = 1

\* C19: the rows parameter of the GET of an Archive.org search lies in
\* 1..100, whatever integer the limit is.
C19_RowsInRange ==
    QueryBuilt => (1 <= req.rows /\ req.rows <= 100)

\* C20: in a successful search result of either program, total is the
\* number of books of the result.
C20_TotalIsBookCount ==
    (SearchDone /\ result.success) =>
        ("total" \in DOMAIN result /\ result.total = Len(result.books))

\* A page of two result elements gave one book: one element was left out.
C20_Witness ==
    /\ PdfSearchDone /\ result.success
    /\ Len(http.elements) = 2 /\ Len(result.books) = 1 /\ call.limit > 1

\* No book of the result carries the identifier of document d.
Excluded(d) ==
    \A k \in 1..Len(result.books) : result.books[k].identifier # d.v["identifier"]

\* C21: in a search that succeeded, a provider document with a non-empty
\* identifier is left out exactly when a skip keyword is a substring of its
\* lowercased title or of its lowercased str(description); every other
\* such document is in the output.
C21_ExcludedIffKeyword ==
    (ArchiveSearchDone /\ result.success /\ HasDocArray) =>
        \A i \in 1..Len(ProviderDocs) :
            HasIdentifier(ProviderDocs[i]) =>
                (Excluded(ProviderDocs[i])
                    <=> (TitleDenylisted(ProviderDocs[i])
                            \/ DescriptionDenylisted(ProviderDocs[i])))

\* A document left out for the keyword in its list-valued description, next
\* to a document without keyword that is in the output.
C21_Witness ==
    /\ ArchiveSearchDone /\ result.success /\ HasDocArray
    /\ Len(ProviderDocs) = 2
    /\ HasIdentifier(ProviderDocs[1]) /\ ~TitleDenylisted(ProviderDocs[1])
    /\ DescriptionDenylisted(ProviderDocs[1]) /\ Excluded(ProviderDocs[1])
    /\ HasIdentifier(ProviderDocs[2]) /\ ~Excluded(ProviderDocs[2])

\* The GET of details failed, came back with a status raise_for_status
\* rejects, or with a body that is no JSON.
DetailsRequestFailed ==
    \/ http.kind # "response"
    \/ http.kind = "response" /\ RaisesForStatus(http.status)
    \/ http.kind = "response" /\ ~RaisesForStatus(http.status) /\ ~http.valid

\* The body was parsed to an object or array without 'metadata'.
LacksMetadata ==
    /\ http.kind = "response" /\ ~RaisesForStatus(http.status) /\ http.valid
    /\ \/ http.json.t = "obj" /\ "metadata" \notin DOMAIN http.json.v
       \/ http.json.t = "list" /\ Len(http.json.v) = 0

\* C22: get_book_details always returns a dict, which the run prints before
\* it ends with code 0.  After a network failure, an HTTP error status or an
\* unparsable body the dict has success = false and a non-empty error, and
\* for a parsed body without 'metadata' it is
\* {success: false, error: 'Book not found'}.
C22_DetailsNeverRaises ==
    DetailsDone =>
        /\ exitCode = 0 /\ printed = <<result>>
        /\ "none" \notin DOMAIN result
        /\ DetailsRequestFailed =>
              (~result.success /\ "error" \in DOMAIN result /\ result.error # "")
        /\ LacksMetadata =>
              (~result.success /\ "error" \in DOMAIN result
                  /\ result.error = "Book not found")

\* The provider answered {} and the run printed 'Book not found'.
C22_Witness ==
    /\ DetailsDone /\ LacksMetadata /\ http.json.t = "obj"
    /\ printed = <<[success |-> FALSE, error |-> "Book not found"]>>

\* The '"' at position i of q is a delimiter of the query builder: it opens
\* a phrase right after 'field:', or it closes one, after the text of the
\* phrase and in front of ' OR ' or of the ')' of the group.
IsDelimiter(q, i) ==
    \/ i > 1 /\ q[i - 1] = ":"
    \/ /\ i > 1 /\ i < Len(q)
       /\ q[i + 1] \in {" ", ")"}
       /\ q[i - 1] \notin {"\"", "("}

\* C23: every '"' of the built query is a delimiter the query builder
\* added; no '"' of the user's query is in it.
C23_NoUserQuotes ==
    QueryBuilt => \A i \in 1..Len(req.q) : req.q[i] = "\"" => IsDelimiter(req.q, i)

\* The element has a title link with an href: its extraction gives a book.
Extractable(element) == element.link = "ok"

\* The first `limit` elements of the page, for a limit that is no less than 0.
FirstElements(elements, limit) ==
    SubSeq(elements, 1, IF limit < Len(elements) THEN limit ELSE Len(elements))

\* The book was extracted from the element.
ExtractedFrom(book, element) ==
    /\ book.url = UrlJoin(element.href)
    /\ book.title = Strip(element.text)
    /\ book.downloadUrl = book.url

\* C24: whatever elements of a page have no title link or raise in their
\* extraction, search_books returns success = true, and for a limit of 0
\* or more its books are the books of the other elements among the first
\* `limit` elements, one each and in their order.
C24_BadElementsSkipped ==
    (PdfSearchDone /\ http.kind = "response" /\ http.status = 200) =>
        /\ result.success
        /\ call.limit >= 0 =>
             LET rest == SelectSeq(FirstElements(http.elements, call.limit), Extractable)
             IN  /\ Len(result.books) = Len(rest)
                 /\ \A k \in 1..Len(rest) : ExtractedFrom(result.books[k], rest[k])

\* An element whose <a> has no href, so that its extraction raises, in
\* front of an element that gave a book.
C24_Witness ==
    /\ PdfSearchDone /\ http.kind = "response" /\ http.status = 200
    /\ Len(http.elements) = 2 /\ call.limit >= 2
    /\ http.elements[1].link = "nohref" /\ Extractable(http.elements[2])
    /\ Len(result.books) = 1

\* ------------------------------------------------------------ lesson scripts
\* ai-classroom-simple.py, ai-lesson-bot.py, audio-lesson-simple.py and
\* web-audio-lesson.py: main reads the topic and the token, the create
\* function generates the outline with one POST, starts a daemon thread for
\* the lesson session and returns, and main prints the dict and ends.
LessonScripts ==
    {"ai-classroom-simple.py", "ai-lesson-bot.py", "audio-lesson-simple.py", "web-audio-lesson.py"}

\* The first line of generate_fallback_outline; the text is kept as one fragment.
FallbackHeading(script) ==
    CASE script = "ai-classroom-simple.py" -> "AI Live Classroom: "
      [] script = "ai-lesson-bot.py"       -> "Lesson Outline: "
      [] script = "audio-lesson-simple.py" -> "Lesson: "
      [] script = "web-audio-lesson.py"    -> "AI Lesson: "

\* generate_fallback_outline(topic): an f-string around the topic.
generate_fallback_outline(script, topic) ==
    <<FallbackHeading(script)>> \o topic \o <<"\n\nIntroduction ... Summary">>

\* ai-classroom-simple.py alone puts the fallback in the place of an empty text.
FallbackIfEmpty(script) == script = "ai-classroom-simple.py"

\* generate_outline / generate_lesson_outline from the answer of
\* requests.post on: post is a raised exception or a response.
generate_lesson_outline(script, topic, post) ==
    LET fallback == generate_fallback_outline(script, topic)
        answer == post.json
        first == answer.v[1]
        text == PyGet(first, "generated_text", JStr(<<>>))
    IN  IF post.kind # "response" THEN fallback
        ELSE IF post.status # 200 THEN fallback
        ELSE IF ~post.valid THEN fallback
        ELSE IF ~(answer.t = "list" /\ Len(answer.v) > 0) THEN fallback
        ELSE IF text.exc # "none" THEN fallback
        ELSE IF text.val.t # "str" THEN fallback
        ELSE IF FallbackIfEmpty(script) /\ Strip(text.val.v) = <<>> THEN fallback
        ELSE Strip(text.val.v)

S_OutlineText == <<"C","e","l","l","s"," ","d","i","v","i","d","e"," ","i","n"," ","t","w","o",".">>
S_CellDivision == <<"c","e","l","l"," ","d","i","v","i","s","i","o","n">>
S_Token == <<"h","f","_","a","b","c">>

\* sys.argv[1] of a lesson script.
Topics == << Queries[1], S_CellDivision >>

GeneratedText(s) == JList(<<JObj([generated_text |-> JStr(s)])>>)

\* What requests.post / response.json() hand to the outline generator.
ApiPool == <<
    HttpRaised("timeout", "Read timed out. (read timeout=30)"),   \* 1
    HttpStatus(503),                                              \* 2: model loading
    HttpNotJson(200, TRUE),                                       \* 3
    HttpJson(200, JObj([error |-> JStr(<<"x">>)])),               \* 4: no list
    HttpJson(200, JList(<<>>)),                                   \* 5: empty list
    HttpJson(200, GeneratedText(S_OutlineText)),                  \* 6
    HttpJson(200, GeneratedText(<<" ">> \o S_OutlineText \o <<"\n">>)), \* 7
    HttpJson(200, GeneratedText(<<>>)),                           \* 8: empty text
    HttpJson(200, GeneratedText(<<" ", "\n">>)),                  \* 9: blank text
    HttpJson(200, JList(<<EmptyObj>>)),                           \* 10: no generated_text
    HttpJson(200, JList(<<JStr(<<"x">>)>>)),                      \* 11: element no dict
    HttpJson(200, JList(<<JObj([generated_text |-> JNull])>>)),   \* 12: null text
    HttpJson(201, GeneratedText(S_OutlineText))                   \* 13: status not 200
  >>

\* main ends in sys.exit(1): the topic or the token is missing.
LessonStop(script, a) ==
    /\ prog' = script /\ argv' = a /\ pc' = "exited" /\ exitCode' = ExitFailure
    /\ UNCHANGED <<call, req, gets, http, result, printed>>
    /\ UNCHANGED <<lessonVars, botVars, storyVars>>

\* main of a lesson script up to the POST of the outline generator;
\* envToken is os.getenv('HF_TOKEN'), <<>> when it is not set.
LessonMain(script, a, envToken) ==
    LET hf_token == IF Len(a) > 2 THEN a[3] ELSE envToken
    IN  IF Len(a) < 2 THEN LessonStop(script, a)
        ELSE IF Len(hf_token) = 0 THEN LessonStop(script, a)
        ELSE /\ prog' = script /\ argv' = a /\ pc' = "generating"
             /\ UNCHANGED <<call, req, gets, http, result, printed, exitCode>>
             /\ UNCHANGED <<lessonVars, botVars, storyVars>>

\* The command lines of the lesson scripts.
LessonStart ==
    /\ pc = "idle"
    /\ \E script \in LessonScripts :
         \/ LessonMain(script, <<script>>, S_Token)
         \/ \E t \in 1..Len(Topics), env \in {<<>>, S_Token} :
               LessonMain(script, <<script, Topics[t]>>, env)
         \/ \E t \in 1..Len(Topics), token \in {<<>>, S_Token} :
               LessonMain(script, <<script, Topics[t], token>>, <<>>)

\* The outline generator returns.
LessonGenerate ==
    /\ pc = "generating"
    /\ \E i \in 1..Len(ApiPool) :
          /\ api' = ApiPool[i]
          /\ outline' = generate_lesson_outline(prog, argv[2], ApiPool[i])
    /\ pc' = "outlined"
    /\ UNCHANGED <<prog, argv, call, req, gets, http, result, printed, exitCode>>
    /\ UNCHANGED <<status, threadPc, delivered, cleaned>>
    /\ UNCHANGED <<botVars, storyVars>>

\* threading.Thread(target=..., daemon=True).start()
LessonSpawn ==
    /\ pc = "outlined"
    /\ threadPc' = "started" /\ pc' = "spawned"
    /\ UNCHANGED <<prog, argv, call, req, gets, http, result, printed, exitCode>>
    /\ UNCHANGED <<api, outline, status, delivered, cleaned>>
    /\ UNCHANGED <<botVars, storyVars>>

\* The create function returns its dict and main prints it.
LessonReturn ==
    /\ pc = "spawned"
    /\ status' = "success"
    /\ printed' = <<[url |-> "https://meet.jit.si/", outline |-> outline, status |-> "success"]>>
    /\ pc' = "printed"
    /\ UNCHANGED <<prog, argv, call, req, gets, http, result, exitCode>>
    /\ UNCHANGED <<api, outline, threadPc, delivered, cleaned>>
    /\ UNCHANGED <<botVars, storyVars>>

\* main returns and the process ends; its daemon thread ends with it,
\* wherever it stands.
LessonEnd ==
    /\ pc = "printed"
    /\ pc' = "exited" /\ exitCode' = 0
    /\ UNCHANGED <<prog, argv, call, req, gets, http, result, printed>>
    /\ UNCHANGED <<lessonVars, botVars, storyVars>>

\* The thread, after its sleep, invokes the lesson delivery with the
\* outline.  In web-audio-lesson.py setup_browser or join_jitsi_room can
\* fail, and the session ends without delivery; simulate_ai_presence of
\* ai-classroom-simple.py has no delivery function.
ThreadDeliver ==
    /\ pc # "exited" /\ threadPc = "started"
    /\ \/ /\ prog \in {"ai-lesson-bot.py", "audio-lesson-simple.py", "web-audio-lesson.py"}
          /\ delivered' = Append(delivered, outline)
          /\ threadPc' = "delivering"
       \/ /\ prog = "ai-classroom-simple.py"
          /\ delivered' = delivered
          /\ threadPc' = "delivering"
       \/ /\ prog = "web-audio-lesson.py"
          /\ delivered' = delivered
          /\ threadPc' = "finished"
    /\ UNCHANGED <<cliVars, api, outline, status, cleaned>>
    /\ UNCHANGED <<botVars, storyVars>>

\* The session ends; run_session of ai-lesson-bot.py executes bot.cleanup()
\* in its finally.
ThreadFinish ==
    /\ pc # "exited" /\ threadPc = "delivering"
    /\ threadPc' = "finished"
    /\ cleaned' = (prog = "ai-lesson-bot.py")
    /\ UNCHANGED <<cliVars, api, outline, status, delivered>>
    /\ UNCHANGED <<botVars, storyVars>>

NextLesson ==
    \/ LessonStart
    \/ LessonGenerate
    \/ LessonSpawn
    \/ LessonReturn
    \/ LessonEnd
    \/ ThreadDeliver
    \/ ThreadFinish

SpecLesson == Init /\ [][NextLesson]_vars

\* The main thread and the daemon thread both run while the process lives.
FairLesson ==
    /\ SpecLesson
    /\ WF_vars(LessonGenerate) /\ WF_vars(LessonSpawn)
    /\ WF_vars(LessonReturn) /\ WF_vars(LessonEnd)
    /\ WF_vars(ThreadDeliver) /\ WF_vars(ThreadFinish)

\* The outline generator of one of the three scripts has returned.
OutlineGenerated ==
    /\ prog \in {"ai-classroom-simple.py", "ai-lesson-bot.py", "audio-lesson-simple.py"}
    /\ pc \in {"outlined", "spawned", "printed", "exited"} /\ api.kind # "none"

\* The generated text is there, a string: result[0]['generated_text'].
HasGeneratedText ==
    /\ api.kind = "response" /\ api.status = 200 /\ api.valid
    /\ api.json.t = "list" /\ Len(api.json.v) > 0
    /\ api.json.v[1].t = "obj" /\ "generated_text" \in DOMAIN api.json.v[1].v
    /\ api.json.v[1].v["generated_text"].t = "str"

\* The text is empty, or nothing but whitespace.
RECURSIVE IsBlank(_)
IsBlank(s) == Len(s) = 0 \/ (IsSpace(s[1]) /\ IsBlank(Tail(s)))

\* C25: the outline generator returns a non-empty outline for every outcome
\* of the POST, and the fallback outline of the topic when the POST raised,
\* the status is not 200, the body is no non-empty list or the generated
\* text is empty.
C25_OutlineNeverEmpty ==
    OutlineGenerated =>
        /\ Len(outline) > 0
        /\ (~HasGeneratedText \/ IsBlank(api.json.v[1].v["generated_text"].v)) =>
              outline = generate_fallback_outline(prog, argv[2])

\* The create function of a script with a lesson delivery has returned
\* status 'success'.
CreatedLesson ==
    /\ prog \in {"ai-lesson-bot.py", "audio-lesson-simple.py", "web-audio-lesson.py"}
    /\ status = "success"

\* The session of the background thread has run: the delivery was invoked
\* with the outline and, in ai-lesson-bot.py, bot.cleanup() was executed.
SessionRan ==
    /\ delivered = <<outline>>
    /\ prog = "ai-lesson-bot.py" => cleaned

\* C26: in a command-line run, once the create function has returned status
\* 'success', the session of the background thread eventually runs, before
\* the process ends: the delivery is invoked with the outline, and in
\* ai-lesson-bot.py cleanup is executed.
C26_SessionEventuallyRuns == [](CreatedLesson => <>SessionRan)

\* ------------------------------------------------------------ ai-live-classroom.py
\* AILiveClassroom.run_bot as one call that runs to its end: the display and
\* the browser are set up, the outline is spoken, the chat is polled, and the
\* finally block releases the driver and the display.
max_session_time == 600
\* time.sleep(3); session_time += 3
session_step == 3

S_AITutor == <<"A","I"," ","T","u","t","o","r">>
M_Question == <<"W","h","a","t"," ","i","s"," ","a"," ","c","e","l","l","?">>
M_Tutor == <<"A","I"," ","T","u","t","o","r",":"," ","A"," ","c","e","l","l"," ","i","s"," ","t","h","e"," ","u","n","i","t"," ","o","f"," ","l","i","f","e",".">>
M_Why == <<"W","h","y","?">>
M_AI == <<"A","I">>

\* str.startswith
StartsWith(s, prefix) ==
    Len(prefix) <= Len(s) /\ SubSeq(s, 1, Len(prefix)) = prefix

\* msgs[-1].text of a poll: a question, a message of the bot itself, a
\* message with no text, and a text shorter than the name of the bot.
MessagePool == << M_Question, M_Tutor, <<>>, M_Why, M_AI >>

Message(text) == [has |-> TRUE, text |-> text]

\* Mutant: the loop runs while session_time <= max_session_time.
LoopContinues_inclusive(t) == t <= max_session_time

\* while session_time < max_session_time:
LoopContinues(t) == t < max_session_time

\* Mutant: the answers of the bot itself are not told from questions.
Answers_ownMessages(text, last) == text # last

\* if latest != last_chat and not latest.startswith("AI Tutor"):
Answers(text, last) == text # last /\ ~StartsWith(text, S_AITutor)

\* run_bot is called: display = None, driver = None.
BotStart ==
    /\ botPc = "none"
    /\ botPc' = "display"
    /\ UNCHANGED <<display, driver, quits, stops, session_time, polls,
                   last_chat, latest, asked, lastAnswered>>
    /\ UNCHANGED <<cliVars, lessonVars, storyVars>>

\* display = Display(visible=0, size=(1280, 720)); display.start()
BotDisplay ==
    /\ botPc = "display"
    /\ \/ display' = "none" /\ botPc' = "finally"
       \/ display' = "created" /\ botPc' = "finally"
       \/ display' = "started" /\ botPc' = "browser"
    /\ UNCHANGED <<driver, quits, stops, session_time, polls,
                   last_chat, latest, asked, lastAnswered>>
    /\ UNCHANGED <<cliVars, lessonVars, storyVars>>

\* driver = Driver(uc=True, ...)
BotDriver ==
    /\ botPc = "browser"
    /\ \/ driver' = FALSE /\ botPc' = "finally"
       \/ driver' = TRUE /\ botPc' = "setup"
    /\ UNCHANGED <<display, quits, stops, session_time, polls,
                   last_chat, latest, asked, lastAnswered>>
    /\ UNCHANGED <<cliVars, lessonVars, storyVars>>

\* driver.get, the name, the video loop, execute_cdp_cmd, the join and the
\* speaking of the outline; then last_chat = "" and session_time = 0.
BotSetup ==
    /\ botPc = "setup"
    /\ \/ botPc' = "finally"
       \/ botPc' = "polling"
    /\ last_chat' = <<>> /\ session_time' = 0
    /\ UNCHANGED <<display, driver, quits, stops, polls, latest, asked, lastAnswered>>
    /\ UNCHANGED <<cliVars, lessonVars, storyVars>>

\* One iteration of the monitoring loop.
BotPoll ==
    /\ botPc = "polling" /\ LoopContinues(session_time)
    /\ polls' = polls + 1
    /\ \/ \* find_elements or msgs[-1].text raises: break
          /\ latest' = NoMessage /\ asked' = FALSE /\ botPc' = "finally"
          /\ UNCHANGED <<last_chat, lastAnswered, session_time>>
       \/ \* msgs is empty
          /\ latest' = NoMessage /\ asked' = FALSE /\ botPc' = "polling"
          /\ session_time' = session_time + session_step
          /\ UNCHANGED <<last_chat, lastAnswered>>
       \/ \E i \in 1..Len(MessagePool) :
            /\ latest' = Message(MessagePool[i])
            /\ IF Answers(MessagePool[i], last_chat)
               THEN /\ last_chat' = MessagePool[i]
                    /\ asked' = TRUE
                    /\ \/ \* the answer is generated, sent and spoken
                          /\ lastAnswered' = Message(MessagePool[i])
                          /\ botPc' = "polling"
                          /\ session_time' = session_time + session_step
                       \/ \* text_generation or execute_script raises: break
                          /\ botPc' = "finally"
                          /\ UNCHANGED <<lastAnswered, session_time>>
               ELSE /\ asked' = FALSE /\ botPc' = "polling"
                    /\ session_time' = session_time + session_step
                    /\ UNCHANGED <<last_chat, lastAnswered>>
    /\ UNCHANGED <<display, driver, quits, stops>>
    /\ UNCHANGED <<cliVars, lessonVars, storyVars>>

\* The condition of the while is false.
BotLoopEnd ==
    /\ botPc = "polling" /\ ~LoopContinues(session_time)
    /\ botPc' = "finally"
    /\ UNCHANGED <<display, driver, quits, stops, session_time, polls,
                   last_chat, latest, asked, lastAnswered>>
    /\ UNCHANGED <<cliVars, lessonVars, storyVars>>

\* finally: if driver: driver.quit(); if display: display.stop(), each in a
\* try of its own.
BotFinally ==
    /\ botPc = "finally"
    /\ quits' = IF driver THEN quits + 1 ELSE quits
    /\ stops' = IF display # "none" THEN stops + 1 ELSE stops
    /\ botPc' = "done"
    /\ UNCHANGED <<display, driver, session_time, polls,
                   last_chat, latest, asked, lastAnswered>>
    /\ UNCHANGED <<cliVars, lessonVars, storyVars>>

NextBot ==
    \/ BotStart
    \/ BotDisplay
    \/ BotDriver
    \/ BotSetup
    \/ BotPoll
    \/ BotLoopEnd
    \/ BotFinally

SpecBot == Init /\ [][NextBot]_vars

\* The thread of run_bot keeps running, and every call it makes returns or raises.
FairBot ==
    /\ SpecBot
    /\ WF_vars(BotDisplay) /\ WF_vars(BotDriver) /\ WF_vars(BotSetup)
    /\ WF_vars(BotPoll) /\ WF_vars(BotLoopEnd) /\ WF_vars(BotFinally)

\* A poll raised: it began and did not reach session_time += 3.
PollRaised == polls * session_step > session_time

\* What run_bot has released, at every point of the call.
BotReleases ==
    /\ polls <= 200
    /\ PollRaised => botPc \in {"finally", "done"}
    /\ botPc # "done" => quits = 0 /\ stops = 0
    /\ botPc = "done" =>
          /\ quits = (IF driver THEN 1 ELSE 0)
          /\ display = "started" => stops = 1
          /\ stops <= 1

NewQuestion(text, last) == text # last /\ ~StartsWith(text, S_AITutor)

\* C28: on a poll, text generation is called if and only if the poll finds a
\* latest message whose text differs from last_chat, the text of the last
\* message it was called for and the empty string before the first, and does
\* not start with 'AI Tutor'.
C28_AnswerIffNewQuestion ==
    [][polls' = polls + 1 =>
          (asked' <=> (latest'.has /\ NewQuestion(latest'.text, last_chat)))]_vars

\* A message was answered, and the next poll, finding it again, was silent.
C28_Witness ==
    /\ polls >= 2 /\ botPc = "polling"
    /\ ~asked /\ latest.has /\ latest = lastAnswered /\ latest.text = last_chat

\* C28 as stated: on a poll, an answer is generated if and only if the
\* latest message differs from the last message the bot answered and does not
\* start with 'AI Tutor'.
C28_AnswerIffDiffersFromAnswered ==
    [][polls' = polls + 1 =>
          (asked' <=> /\ latest'.has
                      /\ latest' # lastAnswered
                      /\ ~StartsWith(latest'.text, S_AITutor))]_vars

\* ------------------------------------------------------------ storytelling
\* json.loads on a text: objects, arrays, strings with the one-character
\* escapes, integers and the three literals.  An object is a function from
\* the characters of its keys.  The responses drawn below carry no \uXXXX
\* escape and no fraction.
JsonSpace(c) == c \in {" ", "\t", "\n", "\r"}

\* The index of the first character at or after i that is no whitespace,
\* Len(s) + 1 when there is none.
SkipSpace(s, i) ==
    IF \E j \in i..Len(s) : ~JsonSpace(s[j])
    THEN CHOOSE j \in i..Len(s) : ~JsonSpace(s[j]) /\ \A k \in i..(j - 1) : JsonSpace(s[k])
    ELSE Len(s) + 1

JsonFail == [ok |-> FALSE, val |-> JNull, pos |-> 0]
JsonAt(val, pos) == [ok |-> TRUE, val |-> val, pos |-> pos]

\* The character an escape stands for, <<>> for none.
Unescape(c) ==
    CASE c = "\"" -> <<"\"">>
      [] c = "\\" -> <<"\\">>
      [] c = "/"  -> <<"/">>
      [] c = "n"  -> <<"\n">>
      [] c = "t"  -> <<"\t">>
      [] c = "r"  -> <<"\r">>
      [] OTHER    -> <<>>

\* The string whose opening quote is before i: the characters up to the
\* closing quote; a control character in it is an error.
RECURSIVE ScanString(_, _, _)
ScanString(s, i, acc) ==
    IF i > Len(s) THEN JsonFail
    ELSE IF s[i] = "\"" THEN JsonAt(JStr(acc), i + 1)
    ELSE IF s[i] \in {"\n", "\t", "\r"} THEN JsonFail
    ELSE IF s[i] = "\\"
         THEN IF i + 1 > Len(s) \/ Unescape(s[i + 1]) = <<>> THEN JsonFail
              ELSE ScanString(s, i + 2, acc \o Unescape(s[i + 1]))
    ELSE ScanString(s, i + 1, Append(acc, s[i]))

\* The end of the run of digits that starts at i.
DigitsEnd(s, i) ==
    IF \E j \in i..Len(s) : DigitVal(s[j]) < 0
    THEN (CHOOSE j \in i..Len(s) : DigitVal(s[j]) < 0 /\ \A k \in i..(j - 1) : DigitVal(s[k]) >= 0) - 1
    ELSE Len(s)

\* An integer at i: a zero, or a digit from 1 to 9 and more digits.
ScanNumber(s, i) ==
    LET neg == s[i] = "-"
        b == IF neg THEN i + 1 ELSE i
        e == IF b <= Len(s) /\ s[b] = "0" THEN b ELSE DigitsEnd(s, b)
        n == DigitsVal(SubSeq(s, b, e))
    IN  IF b > Len(s) \/ e < b THEN JsonFail
        ELSE JsonAt(JNum(IF neg THEN 0 - n ELSE n), e + 1)

HasAt(s, i, word) == i + Len(word) - 1 <= Len(s) /\ SubSeq(s, i, i + Len(word) - 1) = word

RECURSIVE ScanValue(_, _), ScanElements(_, _, _), ScanMembers(_, _, _)
\* The JSON value that starts at i; true and false are the numbers 1 and
\* 0, as bool is a subclass of int.
ScanValue(s, i) ==
    IF i > Len(s) THEN JsonFail
    ELSE IF s[i] = "\"" THEN ScanString(s, i + 1, <<>>)
    ELSE IF s[i] = "[" THEN
        LET j == SkipSpace(s, i + 1)
        IN  IF j <= Len(s) /\ s[j] = "]" THEN JsonAt(JList(<<>>), j + 1)
            ELSE ScanElements(s, j, <<>>)
    ELSE IF s[i] = "{" THEN
        LET j == SkipSpace(s, i + 1)
        IN  IF j <= Len(s) /\ s[j] = "}" THEN JsonAt(EmptyObj, j + 1)
            ELSE ScanMembers(s, j, <<>>)
    ELSE IF HasAt(s, i, <<"n","u","l","l">>) THEN JsonAt(JNull, i + 4)
    ELSE IF HasAt(s, i, <<"t","r","u","e">>) THEN JsonAt(JNum(1), i + 4)
    ELSE IF HasAt(s, i, <<"f","a","l","s","e">>) THEN JsonAt(JNum(0), i + 5)
    ELSE IF s[i] = "-" \/ DigitVal(s[i]) >= 0 THEN ScanNumber(s, i)
    ELSE JsonFail

\* The elements of an array from i on, after those of acc.
ScanElements(s, i, acc) ==
    LET e == ScanValue(s, i)
        j == SkipSpace(s, e.pos)
    IN  IF ~e.ok THEN JsonFail
        ELSE IF j > Len(s) THEN JsonFail
        ELSE IF s[j] = "]" THEN JsonAt(JList(Append(acc, e.val)), j + 1)
        ELSE IF s[j] = "," THEN ScanElements(s, SkipSpace(s, j + 1), Append(acc, e.val))
        ELSE JsonFail

\* The members of an object from i on, after those of acc; a key that
\* comes twice keeps its last value.
ScanMembers(s, i, acc) ==
    LET k == IF i <= Len(s) /\ s[i] = "\"" THEN ScanString(s, i + 1, <<>>) ELSE JsonFail
        c == SkipSpace(s, k.pos)
        e == ScanValue(s, SkipSpace(s, c + 1))
        j == SkipSpace(s, e.pos)
        all == Merge(acc, [key \in {k.val.v} |-> e.val])
    IN  IF ~k.ok THEN JsonFail
        ELSE IF c > Len(s) \/ s[c] # ":" THEN JsonFail
        ELSE IF ~e.ok THEN JsonFail
        ELSE IF j > Len(s) THEN JsonFail
        ELSE IF s[j] = "}" THEN JsonAt(JObj(all), j + 1)
        ELSE IF s[j] = "," THEN ScanMembers(s, SkipSpace(s, j + 1), all)
        ELSE JsonFail

\* json.loads(text): the value, or JSONDecodeError; text after the value
\* is an error.
json_loads(text) ==
    LET r == ScanValue(text, SkipSpace(text, 1))
    IN  IF r.ok /\ SkipSpace(text, r.pos) > Len(text) THEN Ok(r.val)
        ELSE Raise("JSONDecodeError")

IndexesOf(s, c) == {i \in 1..Len(s) : s[i] = c}
SetMin(S) == CHOOSE x \in S : \A y \in S : x <= y
SetMax(S) == CHOOSE x \in S : \A y \in S : x >= y

\* re.search(r'\[.*\]', text, re.DOTALL): a match runs from the first '['
\* to the last ']' of the text.
HasArrayMatch(text) ==
    \E i \in IndexesOf(text, "["), j \in IndexesOf(text, "]") : i < j
ArrayMatch(text) ==
    SubSeq(text, SetMin(IndexesOf(text, "[")), SetMax(IndexesOf(text, "]")))

\* text.split('\n')
RECURSIVE SplitLines(_)
SplitLines(text) ==
    IF IndexesOf(text, "\n") = {} THEN <<text>>
    ELSE LET n == SetMin(IndexesOf(text, "\n"))
         IN  <<SubSeq(text, 1, n - 1)>> \o SplitLines(SubSeq(text, n + 1, Len(text)))

\* line.split(':', 1)[1].strip(), for a line with a colon.
AfterColon(line) == Strip(SubSeq(line, SetMin(IndexesOf(line, ":")) + 1, Len(line)))

\* '1' in line or '2' in line or '3' in line or '4' in line
HasSceneDigit(line) == \E i \in 1..Len(line) : line[i] \in {"1", "2", "3", "4"}

\* d[key] = value
SetItem(d, key, value) == Merge(d, [k \in {key} |-> value])

K_scene_number == <<"s","c","e","n","e","_","n","u","m","b","e","r">>
K_visual_description == <<"v","i","s","u","a","l","_","d","e","s","c","r","i","p","t","i","o","n">>
K_narration == <<"n","a","r","r","a","t","i","o","n">>
K_caption == <<"c","a","p","t","i","o","n">>
K_visual_elements == <<"v","i","s","u","a","l","_","e","l","e","m","e","n","t","s">>
K_color_palette == <<"c","o","l","o","r","_","p","a","l","e","t","t","e">>
K_mood == <<"m","o","o","d">>
W_scene == <<"s","c","e","n","e">>
W_part == <<"p","a","r","t">>
W_step == <<"s","t","e","p">>
W_visual == <<"v","i","s","u","a","l">>
W_image == <<"i","m","a","g","e">>
W_description == <<"d","e","s","c","r","i","p","t","i","o","n">>
W_speech == <<"s","p","e","e","c","h">>
W_audio == <<"a","u","d","i","o">>
W_voice == <<"v","o","i","c","e">>
W_lesson == <<"l","e","s","s","o","n">>
W_takeaway == <<"t","a","k","e","a","w","a","y">>
W_learning == <<"l","e","a","r","n","i","n","g">>
Q_scene_number == <<"\"","s","c","e","n","e","_","n","u","m","b","e","r","\"">>

\* The text fallback of _parse_gemini_response in ai-storytelling-enhanced.py,
\* line by line; a field line without a colon raises IndexError.
RECURSIVE EnhancedLines(_, _, _, _)
EnhancedLines(lines, acc, current_scene, scene_count) ==
    IF Len(lines) = 0
    THEN Ok(JList(IF DOMAIN current_scene # {} THEN Append(acc, JObj(current_scene)) ELSE acc))
    ELSE LET line == Strip(lines[1])
             low == Lower(line)
             rest == Tail(lines)
             field == IF Contains(low, K_visual_description) THEN K_visual_description
                      ELSE IF Contains(low, K_narration) THEN K_narration
                      ELSE IF Contains(low, K_caption) THEN K_caption
                      ELSE <<>>
         IN  IF Len(line) = 0 THEN EnhancedLines(rest, acc, current_scene, scene_count)
             ELSE IF Contains(low, W_scene) /\ HasSceneDigit(line)
                  THEN EnhancedLines(rest,
                          IF DOMAIN current_scene # {} THEN Append(acc, JObj(current_scene)) ELSE acc,
                          [k \in {K_scene_number} |-> JNum(scene_count + 1)],
                          scene_count + 1)
             ELSE IF field = <<>> THEN EnhancedLines(rest, acc, current_scene, scene_count)
             ELSE IF IndexesOf(line, ":") = {} THEN Raise("IndexError")
             ELSE EnhancedLines(rest, acc,
                     SetItem(current_scene, field, JStr(AfterColon(line))), scene_count)

\* _parse_gemini_response of ai-storytelling-enhanced.py: the JSON array of
\* the text when the text has braces and the array loads, the scenes of
\* the lines otherwise.
EnhancedParse(text) ==
    LET loaded == json_loads(ArrayMatch(text))
    IN  IF /\ IndexesOf(text, "{") # {} /\ IndexesOf(text, "}") # {}
           /\ HasArrayMatch(text) /\ loaded.exc = "none"
        THEN loaded
        ELSE EnhancedLines(SplitLines(text), <<>>, <<>>, 0)

\* re.findall(r'\{[^}]*"scene_number"[^}]*\}', text, re.DOTALL) from
\* index i on: a match ends at the first '}' after its '{' and starts at
\* the leftmost '{' before it that has "scene_number" in between.
RECURSIVE FindObjects(_, _)
FindObjects(text, i) ==
    LET closes == {j \in IndexesOf(text, "}") : j >= i}
        j == SetMin(closes)
        opens == {k \in IndexesOf(text, "{") :
                     k >= i /\ k < j /\ Contains(SubSeq(text, k + 1, j - 1), Q_scene_number)}
    IN  IF closes = {} THEN <<>>
        ELSE IF opens = {} THEN FindObjects(text, j + 1)
        ELSE <<SubSeq(text, SetMin(opens), j)>> \o FindObjects(text, j + 1)

\* for obj_str in json_objects[:4]: the objects that load.
RECURSIVE LoadObjects(_)
LoadObjects(objs) ==
    IF Len(objs) = 0 THEN <<>>
    ELSE LET scene == json_loads(objs[1])
         IN  (IF scene.exc = "none" THEN <<scene.val>> ELSE <<>>) \o LoadObjects(Tail(objs))

\* any(keyword in line.lower() for keyword in keywords)
AnyIn(low, keywords) == \E k \in 1..Len(keywords) : Contains(low, keywords[k])

\* The fields of _parse_text_response and their keywords, in its order.
TextFields == <<
    [field |-> K_visual_description, keywords |-> <<W_visual, W_image, W_scene, W_description>>],
    [field |-> K_narration, keywords |-> <<K_narration, W_speech, W_audio, W_voice>>],
    [field |-> K_caption, keywords |-> <<K_caption, W_lesson, W_takeaway, W_learning>>] >>

\* The loop over the fields for one line.
RECURSIVE SetFields(_, _, _)
SetFields(current_scene, line, f) ==
    IF f > Len(TextFields) THEN current_scene
    ELSE LET hit == AnyIn(Lower(line), TextFields[f].keywords) /\ IndexesOf(line, ":") # {}
             content == AfterColon(line)
         IN  SetFields(IF hit /\ Len(content) > 0 /\ TextFields[f].field \notin DOMAIN current_scene
                       THEN SetItem(current_scene, TextFields[f].field, JStr(content))
                       ELSE current_scene,
                       line, f + 1)

\* _parse_text_response of ai-storytelling-simple.py, line by line.
RECURSIVE SimpleLines(_, _, _, _)
SimpleLines(lines, acc, current_scene, scene_count) ==
    LET numbered == K_scene_number \in DOMAIN current_scene
    IN  IF Len(lines) = 0
        THEN JList(IF numbered THEN Append(acc, JObj(current_scene)) ELSE acc)
        ELSE LET line == Strip(lines[1])
                 rest == Tail(lines)
                 marker == AnyIn(Lower(line), <<W_scene, W_part, W_step>>) /\ HasSceneDigit(line)
             IN  IF Len(line) = 0 THEN SimpleLines(rest, acc, current_scene, scene_count)
                 ELSE IF marker
                      THEN SimpleLines(rest,
                              IF numbered THEN Append(acc, JObj(current_scene)) ELSE acc,
                              SetFields([k \in {K_scene_number} |-> JNum(scene_count + 1)], line, 1),
                              scene_count + 1)
                 ELSE SimpleLines(rest, acc, SetFields(current_scene, line, 1), scene_count)

\* _parse_gemini_response of ai-storytelling-simple.py: the first 4 of a
\* JSON array that is not empty, else the objects with a scene_number that
\* load, else the scenes of the lines; so too when the array does not load.
SimpleParse(text) ==
    LET loaded == json_loads(ArrayMatch(text))
        found == FindObjects(text, 1)
        objects == LoadObjects(SubSeq(found, 1, IF Len(found) > 4 THEN 4 ELSE Len(found)))
        byLine == SimpleLines(SplitLines(text), <<>>, <<>>, 0)
    IN  IF HasArrayMatch(text) /\ loaded.exc # "none" THEN byLine
        ELSE IF HasArrayMatch(text) /\ Len(loaded.val.v) > 0
             THEN JList(SubSeq(loaded.val.v, 1, IF Len(loaded.val.v) > 4 THEN 4 ELSE Len(loaded.val.v)))
        ELSE IF Len(objects) > 0 THEN JList(objects)
        ELSE byLine

\* A dict literal: its keys with their values, the last value of a key kept.
Dict(pairs) ==
    [k \in {pairs[i][1] : i \in 1..Len(pairs)} |->
        pairs[CHOOSE i \in 1..Len(pairs) :
                 pairs[i][1] = k /\ \A j \in (i + 1)..Len(pairs) : pairs[j][1] # k][2]]

\* _create_fallback_story of ai-storytelling-enhanced.py
create_fallback_story_enhanced(c) == <<
    JObj(Dict(<<
        <<K_scene_number, JNum(1)>>,
        <<K_visual_description, JStr(<<"Introduction to ">> \o c \o <<" with vibrant educational elements">>)>>,
        <<K_narration, JStr(<<"Welcome to our journey exploring ">> \o c)>>,
        <<K_caption, JStr(<<"Let's discover the basics of ">> \o c)>>,
        <<K_visual_elements, JList(<<JStr(<<"educational">>), JStr(<<"introduction">>), JStr(<<"colorful">>)>>)>>,
        <<K_color_palette, JList(<<JStr(<<"#4F46E5">>), JStr(<<"#7C3AED">>), JStr(<<"#EC4899">>)>>)>>,
        <<K_mood, JStr(<<"exciting">>)>> >>)),
    JObj(Dict(<<
        <<K_scene_number, JNum(2)>>,
        <<K_visual_description, JStr(<<"Detailed exploration of key ">> \o c \o <<" principles">>)>>,
        <<K_narration, JStr(<<"Now we dive deeper into understanding ">> \o c)>>,
        <<K_caption, JStr(<<"Core principles of ">> \o c \o <<" explained">>)>>,
        <<K_visual_elements, JList(<<JStr(<<"detailed">>), JStr(<<"explanatory">>), JStr(<<"scientific">>)>>)>>,
        <<K_color_palette, JList(<<JStr(<<"#059669">>), JStr(<<"#0D9488">>), JStr(<<"#0891B2">>)>>)>>,
        <<K_mood, JStr(<<"focused">>)>> >>)),
    JObj(Dict(<<
        <<K_scene_number, JNum(3)>>,
        <<K_visual_description, JStr(<<"Real-world applications and examples of ">> \o c)>>,
        <<K_narration, JStr(<<"See how ">> \o c \o <<" works in everyday life">>)>>,
        <<K_caption, JStr(<<"Practical applications of ">> \o c)>>,
        <<K_visual_elements, JList(<<JStr(<<"practical">>), JStr(<<"real-world">>), JStr(<<"examples">>)>>)>>,
        <<K_color_palette, JList(<<JStr(<<"#DC2626">>), JStr(<<"#EA580C">>), JStr(<<"#D97706">>)>>)>>,
        <<K_mood, JStr(<<"practical">>)>> >>)),
    JObj(Dict(<<
        <<K_scene_number, JNum(4)>>,
        <<K_visual_description, JStr(<<"Summary and future exploration of ">> \o c)>>,
        <<K_narration, JStr(<<"What we've learned about ">> \o c \o <<" and what's next">>)>>,
        <<K_caption, JStr(<<"Mastering ">> \o c \o <<" - your learning journey continues">>)>>,
        <<K_visual_elements, JList(<<JStr(<<"summary">>), JStr(<<"future">>), JStr(<<"achievement">>)>>)>>,
        <<K_color_palette, JList(<<JStr(<<"#7C2D12">>), JStr(<<"#A16207">>), JStr(<<"#065F46">>)>>)>>,
        <<K_mood, JStr(<<"accomplished">>)>> >>)) >>

\* _create_fallback_story of ai-storytelling-simple.py
create_fallback_story_simple(c) == <<
    JObj(Dict(<<
        <<K_scene_number, JNum(1)>>,
        <<K_visual_description, JStr(<<"Introduction to ">> \o c \o <<" with vibrant educational elements and colorful diagrams">>)>>,
        <<K_narration, JStr(<<"Welcome to our journey exploring ">> \o c)>>,
        <<K_caption, JStr(<<"Let's discover the basics of ">> \o c)>> >>)),
    JObj(Dict(<<
        <<K_scene_number, JNum(2)>>,
        <<K_visual_description, JStr(<<"Detailed exploration of key ">> \o c \o <<" principles with scientific illustrations and examples">>)>>,
        <<K_narration, JStr(<<"Now we dive deeper into understanding ">> \o c)>>,
        <<K_caption, JStr(<<"Core principles of ">> \o c \o <<" explained">>)>> >>)),
    JObj(Dict(<<
        <<K_scene_number, JNum(3)>>,
        <<K_visual_description, JStr(<<"Real-world applications and examples of ">> \o c \o <<" in everyday situations">>)>>,
        <<K_narration, JStr(<<"See how ">> \o c \o <<" works in everyday life">>)>>,
        <<K_caption, JStr(<<"Practical applications of ">> \o c)>> >>)),
    JObj(Dict(<<
        <<K_scene_number, JNum(4)>>,
        <<K_visual_description, JStr(<<"Summary and future exploration of ">> \o c \o <<" with encouraging educational elements">>)>>,
        <<K_narration, JStr(<<"What we've learned about ">> \o c \o <<" and what's next">>)>>,
        <<K_caption, JStr(<<"Mastering ">> \o c \o <<" - your learning journey continues">>)>> >>)) >>

\* _create_default_scene of ai-storytelling-enhanced.py
create_default_scene(scene_number) ==
    JObj(Dict(<<
        <<K_scene_number, JNum(scene_number)>>,
        <<K_visual_description, JStr(<<"Educational scene ">> \o DigitsOf(scene_number) \o <<" with learning elements">>)>>,
        <<K_narration, JStr(<<"This is scene ">> \o DigitsOf(scene_number) \o <<" of our educational story">>)>>,
        <<K_caption, JStr(<<"Learning point ">> \o DigitsOf(scene_number))>>,
        <<K_visual_elements, JList(<<JStr(<<"educational">>), JStr(<<"generic">>)>>)>>,
        <<K_color_palette, JList(<<JStr(<<"#6B7280">>), JStr(<<"#9CA3AF">>)>>)>>,
        <<K_mood, JStr(<<"neutral">>)>> >>))

create_fallback_story(system, c) ==
    IF system = "enhanced" THEN create_fallback_story_enhanced(c)
    ELSE create_fallback_story_simple(c)

StoryRaised == [kind |-> "raised", text |-> <<>>]
StoryBlocked == [kind |-> "blocked", text |-> <<>>]
StoryText(t) == [kind |-> "text", text |-> t]

\* The texts of the model: response.text.
\* array of 0 scenes
T_ArrayOf0Scenes ==
    <<"[","]">>
\* array of 1 scenes
T_ArrayOf1Scenes ==
    <<"[","{","\"","s","c","e","n","e","_","n","u","m","b","e","r","\"",":"," ","1",","," ","\"","n","a","r","r","a","t","i","o","n","\"",":"," ","\"","P","a","r","t"," ","1",".","\"","}","]">>
\* array of 2 scenes
T_ArrayOf2Scenes ==
    <<"[","{","\"","s","c","e","n","e","_","n","u","m","b","e","r","\"",":"," ","1",","," ","\"","n","a","r","r","a","t","i","o","n","\"",":"," ","\"","P","a","r","t"," ","1",".","\"","}",","," ","{","\"","s","c","e","n","e","_","n","u","m","b","e","r","\"",":"," ","2",","," ","\"","n","a","r","r","a","t","i","o","n","\"",":"," ","\"","P","a","r","t"," ","2",".","\"","}","]">>
\* array of 3 scenes
T_ArrayOf3Scenes ==
    <<"[","{","\"","s","c","e","n","e","_","n","u","m","b","e","r","\"",":"," ","1",","," ","\"","n","a","r","r","a","t","i","o","n","\"",":"," ","\"","P","a","r","t"," ","1",".","\"","}",","," ","{","\"","s","c","e","n","e","_","n","u","m","b","e","r","\"",":"," ","2",","," ","\"","n","a","r","r","a","t","i","o","n","\"",":"," ","\"","P","a","r","t"," ","2",".","\"","}",","," ","{","\"","s","c","e","n","e","_","n","u","m","b","e","r","\"",":"," ","3",","," ","\"","n","a","r","r","a","t","i","o","n","\"",":"," ","\"","P","a","r","t"," ","3",".","\"","}","]">>
\* array of 4 scenes
T_ArrayOf4Scenes ==
    <<"[","{","\"","s","c","e","n","e","_","n","u","m","b","e","r","\"",":"," ","1",","," ","\"","n","a","r","r","a","t","i","o","n","\"",":"," ","\"","P","a","r","t"," ","1",".","\"","}",","," ","{","\"","s","c","e","n","e","_","n","u","m","b","e","r","\"",":"," ","2",","," ","\"","n","a","r","r","a","t","i","o","n","\"",":"," ","\"","P","a","r","t"," ","2",".","\"","}",","," ","{","\"","s","c","e","n","e","_","n","u","m","b","e","r","\"",":"," ","3",","," ","\"","n","a","r","r","a","t","i","o","n","\"",":"," ","\"","P","a","r","t"," ","3",".","\"","}",","," ","{","\"","s","c","e","n","e","_","n","u","m","b","e","r","\"",":"," ","4",","," ","\"","n","a","r","r","a","t","i","o","n","\"",":"," ","\"","P","a","r","t"," ","4",".","\"","}","]">>
\* array of 5 scenes
T_ArrayOf5Scenes ==
    <<"[","{","\"","s","c","e","n","e","_","n","u","m","b","e","r","\"",":"," ","1",","," ","\"","n","a","r","r","a","t","i","o","n","\"",":"," ","\"","P","a","r","t"," ","1",".","\"","}",","," ","{","\"","s","c","e","n","e","_","n","u","m","b","e","r","\"",":"," ","2",","," ","\"","n","a","r","r","a","t","i","o","n","\"",":"," ","\"","P","a","r","t"," ","2",".","\"","}",","," ","{","\"","s","c","e","n","e","_","n","u","m","b","e","r","\"",":"," ","3",","," ","\"","n","a","r","r","a","t","i","o","n","\"",":"," ","\"","P","a","r","t"," ","3",".","\"","}",","," ","{","\"","s","c","e","n","e","_","n","u","m","b","e","r","\"",":"," ","4",","," ","\"","n","a","r","r","a","t","i","o","n","\"",":"," ","\"","P","a","r","t"," ","4",".","\"","}",","," ","{","\"","s","c","e","n","e","_","n","u","m","b","e","r","\"",":"," ","5",","," ","\"","n","a","r","r","a","t","i","o","n","\"",":"," ","\"","P","a","r","t"," ","5",".","\"","}","]">>
\* array of 6 scenes
T_ArrayOf6Scenes ==
    <<"[","{","\"","s","c","e","n","e","_","n","u","m","b","e","r","\"",":"," ","1",","," ","\"","n","a","r","r","a","t","i","o","n","\"",":"," ","\"","P","a","r","t"," ","1",".","\"","}",","," ","{","\"","s","c","e","n","e","_","n","u","m","b","e","r","\"",":"," ","2",","," ","\"","n","a","r","r","a","t","i","o","n","\"",":"," ","\"","P","a","r","t"," ","2",".","\"","}",","," ","{","\"","s","c","e","n","e","_","n","u","m","b","e","r","\"",":"," ","3",","," ","\"","n","a","r","r","a","t","i","o","n","\"",":"," ","\"","P","a","r","t"," ","3",".","\"","}",","," ","{","\"","s","c","e","n","e","_","n","u","m","b","e","r","\"",":"," ","4",","," ","\"","n","a","r","r","a","t","i","o","n","\"",":"," ","\"","P","a","r","t"," ","4",".","\"","}",","," ","{","\"","s","c","e","n","e","_","n","u","m","b","e","r","\"",":"," ","5",","," ","\"","n","a","r","r","a","t","i","o","n","\"",":"," ","\"","P","a","r","t"," ","5",".","\"","}",","," ","{","\"","s","c","e","n","e","_","n","u","m","b","e","r","\"",":"," ","6",","," ","\"","n","a","r","r","a","t","i","o","n","\"",":"," ","\"","P","a","r","t"," ","6",".","\"","}","]">>
\* indented array of 3 scenes
T_IndentedArrayOf3Scenes ==
    <<"j","s","o","n","\n","[","\n"," ","{","\n"," "," ","\"","s","c","e","n","e","_","n","u","m","b","e","r","\"",":"," ","1",",","\n"," "," ","\"","n","a","r","r","a","t","i","o","n","\"",":"," ","\"","P","a","r","t"," ","1",".","\"","\n"," ","}",",","\n"," ","{","\n"," "," ","\"","s","c","e","n","e","_","n","u","m","b","e","r","\"",":"," ","2",",","\n"," "," ","\"","n","a","r","r","a","t","i","o","n","\"",":"," ","\"","P","a","r","t"," ","2",".","\"","\n"," ","}",",","\n"," ","{","\n"," "," ","\"","s","c","e","n","e","_","n","u","m","b","e","r","\"",":"," ","3",",","\n"," "," ","\"","n","a","r","r","a","t","i","o","n","\"",":"," ","\"","P","a","r","t"," ","3",".","\"","\n"," ","}","\n","]","\n">>
\* indented array of 4 scenes
T_IndentedArrayOf4Scenes ==
    <<"j","s","o","n","\n","[","\n"," ","{","\n"," "," ","\"","s","c","e","n","e","_","n","u","m","b","e","r","\"",":"," ","1",",","\n"," "," ","\"","n","a","r","r","a","t","i","o","n","\"",":"," ","\"","P","a","r","t"," ","1",".","\"","\n"," ","}",",","\n"," ","{","\n"," "," ","\"","s","c","e","n","e","_","n","u","m","b","e","r","\"",":"," ","2",",","\n"," "," ","\"","n","a","r","r","a","t","i","o","n","\"",":"," ","\"","P","a","r","t"," ","2",".","\"","\n"," ","}",",","\n"," ","{","\n"," "," ","\"","s","c","e","n","e","_","n","u","m","b","e","r","\"",":"," ","3",",","\n"," "," ","\"","n","a","r","r","a","t","i","o","n","\"",":"," ","\"","P","a","r","t"," ","3",".","\"","\n"," ","}",",","\n"," ","{","\n"," "," ","\"","s","c","e","n","e","_","n","u","m","b","e","r","\"",":"," ","4",",","\n"," "," ","\"","n","a","r","r","a","t","i","o","n","\"",":"," ","\"","P","a","r","t"," ","4",".","\"","\n"," ","}","\n","]","\n">>
\* indented array of 5 scenes
T_IndentedArrayOf5Scenes ==
    <<"j","s","o","n","\n","[","\n"," ","{","\n"," "," ","\"","s","c","e","n","e","_","n","u","m","b","e","r","\"",":"," ","1",",","\n"," "," ","\"","n","a","r","r","a","t","i","o","n","\"",":"," ","\"","P","a","r","t"," ","1",".","\"","\n"," ","}",",","\n"," ","{","\n"," "," ","\"","s","c","e","n","e","_","n","u","m","b","e","r","\"",":"," ","2",",","\n"," "," ","\"","n","a","r","r","a","t","i","o","n","\"",":"," ","\"","P","a","r","t"," ","2",".","\"","\n"," ","}",",","\n"," ","{","\n"," "," ","\"","s","c","e","n","e","_","n","u","m","b","e","r","\"",":"," ","3",",","\n"," "," ","\"","n","a","r","r","a","t","i","o","n","\"",":"," ","\"","P","a","r","t"," ","3",".","\"","\n"," ","}",",","\n"," ","{","\n"," "," ","\"","s","c","e","n","e","_","n","u","m","b","e","r","\"",":"," ","4",",","\n"," "," ","\"","n","a","r","r","a","t","i","o","n","\"",":"," ","\"","P","a","r","t"," ","4",".","\"","\n"," ","}",",","\n"," ","{","\n"," "," ","\"","s","c","e","n","e","_","n","u","m","b","e","r","\"",":"," ","5",",","\n"," "," ","\"","n","a","r","r","a","t","i","o","n","\"",":"," ","\"","P","a","r","t"," ","5",".","\"","\n"," ","}","\n","]","\n">>
\* array of 2 scenes in prose
T_ArrayOf2ScenesInProse ==
    <<"H","e","r","e"," ","a","r","e"," ","t","h","e"," ","s","c","e","n","e","s",":","\n","[","{","\"","s","c","e","n","e","_","n","u","m","b","e","r","\"",":"," ","1",","," ","\"","n","a","r","r","a","t","i","o","n","\"",":"," ","\"","P","a","r","t"," ","1",".","\"","}",","," ","{","\"","s","c","e","n","e","_","n","u","m","b","e","r","\"",":"," ","2",","," ","\"","n","a","r","r","a","t","i","o","n","\"",":"," ","\"","P","a","r","t"," ","2",".","\"","}","]","\n","E","n","j","o","y","!">>
\* array of 4 scenes in prose
T_ArrayOf4ScenesInProse ==
    <<"H","e","r","e"," ","a","r","e"," ","t","h","e"," ","s","c","e","n","e","s",":","\n","[","{","\"","s","c","e","n","e","_","n","u","m","b","e","r","\"",":"," ","1",","," ","\"","n","a","r","r","a","t","i","o","n","\"",":"," ","\"","P","a","r","t"," ","1",".","\"","}",","," ","{","\"","s","c","e","n","e","_","n","u","m","b","e","r","\"",":"," ","2",","," ","\"","n","a","r","r","a","t","i","o","n","\"",":"," ","\"","P","a","r","t"," ","2",".","\"","}",","," ","{","\"","s","c","e","n","e","_","n","u","m","b","e","r","\"",":"," ","3",","," ","\"","n","a","r","r","a","t","i","o","n","\"",":"," ","\"","P","a","r","t"," ","3",".","\"","}",","," ","{","\"","s","c","e","n","e","_","n","u","m","b","e","r","\"",":"," ","4",","," ","\"","n","a","r","r","a","t","i","o","n","\"",":"," ","\"","P","a","r","t"," ","4",".","\"","}","]","\n","E","n","j","o","y","!">>
\* array of 4 scenes with lists
T_ArrayOf4ScenesWithLists ==
    <<"[","{","\"","s","c","e","n","e","_","n","u","m","b","e","r","\"",":"," ","1",","," ","\"","n","a","r","r","a","t","i","o","n","\"",":"," ","\"","P","a","r","t"," ","1",".","\"",","," ","\"","v","i","s","u","a","l","_","e","l","e","m","e","n","t","s","\"",":"," ","[","\"","a","\"",","," ","\"","b","\"","]","}",","," ","{","\"","s","c","e","n","e","_","n","u","m","b","e","r","\"",":"," ","2",","," ","\"","n","a","r","r","a","t","i","o","n","\"",":"," ","\"","P","a","r","t"," ","2",".","\"",","," ","\"","v","i","s","u","a","l","_","e","l","e","m","e","n","t","s","\"",":"," ","[","\"","a","\"",","," ","\"","b","\"","]","}",","," ","{","\"","s","c","e","n","e","_","n","u","m","b","e","r","\"",":"," ","3",","," ","\"","n","a","r","r","a","t","i","o","n","\"",":"," ","\"","P","a","r","t"," ","3",".","\"",","," ","\"","v","i","s","u","a","l","_","e","l","e","m","e","n","t","s","\"",":"," ","[","\"","a","\"",","," ","\"","b","\"","]","}",","," ","{","\"","s","c","e","n","e","_","n","u","m","b","e","r","\"",":"," ","4",","," ","\"","n","a","r","r","a","t","i","o","n","\"",":"," ","\"","P","a","r","t"," ","4",".","\"",","," ","\"","v","i","s","u","a","l","_","e","l","e","m","e","n","t","s","\"",":"," ","[","\"","a","\"",","," ","\"","b","\"","]","}","]">>
\* 2 objects, no array
T_2ObjectsNoArray ==
    <<"{","\"","s","c","e","n","e","_","n","u","m","b","e","r","\"",":"," ","1",","," ","\"","n","a","r","r","a","t","i","o","n","\"",":"," ","\"","P","a","r","t"," ","1",".","\"","}","\n","{","\"","s","c","e","n","e","_","n","u","m","b","e","r","\"",":"," ","2",","," ","\"","n","a","r","r","a","t","i","o","n","\"",":"," ","\"","P","a","r","t"," ","2",".","\"","}">>
\* 4 objects, no array
T_4ObjectsNoArray ==
    <<"{","\"","s","c","e","n","e","_","n","u","m","b","e","r","\"",":"," ","1",","," ","\"","n","a","r","r","a","t","i","o","n","\"",":"," ","\"","P","a","r","t"," ","1",".","\"","}","\n","{","\"","s","c","e","n","e","_","n","u","m","b","e","r","\"",":"," ","2",","," ","\"","n","a","r","r","a","t","i","o","n","\"",":"," ","\"","P","a","r","t"," ","2",".","\"","}","\n","{","\"","s","c","e","n","e","_","n","u","m","b","e","r","\"",":"," ","3",","," ","\"","n","a","r","r","a","t","i","o","n","\"",":"," ","\"","P","a","r","t"," ","3",".","\"","}","\n","{","\"","s","c","e","n","e","_","n","u","m","b","e","r","\"",":"," ","4",","," ","\"","n","a","r","r","a","t","i","o","n","\"",":"," ","\"","P","a","r","t"," ","4",".","\"","}">>
\* 5 objects, no array
T_5ObjectsNoArray ==
    <<"{","\"","s","c","e","n","e","_","n","u","m","b","e","r","\"",":"," ","1",","," ","\"","n","a","r","r","a","t","i","o","n","\"",":"," ","\"","P","a","r","t"," ","1",".","\"","}","\n","{","\"","s","c","e","n","e","_","n","u","m","b","e","r","\"",":"," ","2",","," ","\"","n","a","r","r","a","t","i","o","n","\"",":"," ","\"","P","a","r","t"," ","2",".","\"","}","\n","{","\"","s","c","e","n","e","_","n","u","m","b","e","r","\"",":"," ","3",","," ","\"","n","a","r","r","a","t","i","o","n","\"",":"," ","\"","P","a","r","t"," ","3",".","\"","}","\n","{","\"","s","c","e","n","e","_","n","u","m","b","e","r","\"",":"," ","4",","," ","\"","n","a","r","r","a","t","i","o","n","\"",":"," ","\"","P","a","r","t"," ","4",".","\"","}","\n","{","\"","s","c","e","n","e","_","n","u","m","b","e","r","\"",":"," ","5",","," ","\"","n","a","r","r","a","t","i","o","n","\"",":"," ","\"","P","a","r","t"," ","5",".","\"","}">>
\* 4 objects with lists, no array
T_4ObjectsWithListsNoArray ==
    <<"{","\"","s","c","e","n","e","_","n","u","m","b","e","r","\"",":"," ","1",","," ","\"","n","a","r","r","a","t","i","o","n","\"",":"," ","\"","P","a","r","t"," ","1",".","\"",","," ","\"","v","i","s","u","a","l","_","e","l","e","m","e","n","t","s","\"",":"," ","[","\"","a","\"",","," ","\"","b","\"","]","}","\n","{","\"","s","c","e","n","e","_","n","u","m","b","e","r","\"",":"," ","2",","," ","\"","n","a","r","r","a","t","i","o","n","\"",":"," ","\"","P","a","r","t"," ","2",".","\"",","," ","\"","v","i","s","u","a","l","_","e","l","e","m","e","n","t","s","\"",":"," ","[","\"","a","\"",","," ","\"","b","\"","]","}","\n","{","\"","s","c","e","n","e","_","n","u","m","b","e","r","\"",":"," ","3",","," ","\"","n","a","r","r","a","t","i","o","n","\"",":"," ","\"","P","a","r","t"," ","3",".","\"",","," ","\"","v","i","s","u","a","l","_","e","l","e","m","e","n","t","s","\"",":"," ","[","\"","a","\"",","," ","\"","b","\"","]","}","\n","{","\"","s","c","e","n","e","_","n","u","m","b","e","r","\"",":"," ","4",","," ","\"","n","a","r","r","a","t","i","o","n","\"",":"," ","\"","P","a","r","t"," ","4",".","\"",","," ","\"","v","i","s","u","a","l","_","e","l","e","m","e","n","t","s","\"",":"," ","[","\"","a","\"",","," ","\"","b","\"","]","}">>
\* one object with a list of 4
T_OneObjectWithAListOf4 ==
    <<"{","\"","s","c","e","n","e","_","n","u","m","b","e","r","\"",":"," ","1",","," ","\"","v","i","s","u","a","l","_","e","l","e","m","e","n","t","s","\"",":"," ","[","\"","a","\"",","," ","\"","b","\"",","," ","\"","c","\"",","," ","\"","d","\"","]","}">>
\* array cut short
T_ArrayCutShort ==
    <<"[","{","\"","s","c","e","n","e","_","n","u","m","b","e","r","\"",":"," ","1",","," ","\"","n","a","r","r","a","t","i","o","n","\"",":"," ","\"","P","a","r","t"," ","1",".","\"","}",",">>
\* array with a bare word
T_ArrayWithABareWord ==
    <<"[","{","\"","s","c","e","n","e","_","n","u","m","b","e","r","\"",":"," ","1","}",","," ","o","o","p","s","]">>
\* array with a trailing comma
T_ArrayWithATrailingComma ==
    <<"[","{","\"","s","c","e","n","e","_","n","u","m","b","e","r","\"",":"," ","1","}",","," ","{","\"","s","c","e","n","e","_","n","u","m","b","e","r","\"",":"," ","2","}",",","]">>
\* two arrays
T_TwoArrays ==
    <<"[","{","\"","s","c","e","n","e","_","n","u","m","b","e","r","\"",":"," ","1","}","]"," ","a","n","d"," ","[","{","\"","s","c","e","n","e","_","n","u","m","b","e","r","\"",":"," ","2","}","]">>
\* array of 4 numbers
T_ArrayOf4Numbers ==
    <<"S","c","o","r","e","s",":"," ","[","1",","," ","2",","," ","3",","," ","4","]"," ","{","}">>
\* escaped quote
T_EscapedQuote ==
    <<"[","{","\"","s","c","e","n","e","_","n","u","m","b","e","r","\"",":"," ","1",","," ","\"","n","a","r","r","a","t","i","o","n","\"",":"," ","\"","S","a","y"," ","\\","\"","h","i","\\","\"",".","\"","}","]">>
\* empty array then object
T_EmptyArrayThenObject ==
    <<"[","]"," ","{","\"","s","c","e","n","e","_","n","u","m","b","e","r","\"",":"," ","1",","," ","\"","c","a","p","t","i","o","n","\"",":"," ","\"","O","n","e",".","\"","}">>
\* object with a bad member
T_ObjectWithABadMember ==
    <<"{","\"","s","c","e","n","e","_","n","u","m","b","e","r","\"",":"," ","1",","," ","o","o","p","s","}","\n","{","\"","s","c","e","n","e","_","n","u","m","b","e","r","\"",":"," ","2","}">>
\* refusal
T_Refusal ==
    <<"I"," ","c","a","n","n","o","t"," ","h","e","l","p"," ","w","i","t","h"," ","t","h","a","t",".">>
\* text of 2 scenes
T_TextOf2Scenes ==
    <<"S","c","e","n","e"," ","1","\n","N","a","r","r","a","t","i","o","n",":"," ","P","a","r","t"," ","1",".","\n","C","a","p","t","i","o","n",":"," ","P","o","i","n","t"," ","1",".","\n","S","c","e","n","e"," ","2","\n","N","a","r","r","a","t","i","o","n",":"," ","P","a","r","t"," ","2",".","\n","C","a","p","t","i","o","n",":"," ","P","o","i","n","t"," ","2",".">>
\* text of 4 scenes
T_TextOf4Scenes ==
    <<"S","c","e","n","e"," ","1","\n","N","a","r","r","a","t","i","o","n",":"," ","P","a","r","t"," ","1",".","\n","C","a","p","t","i","o","n",":"," ","P","o","i","n","t"," ","1",".","\n","S","c","e","n","e"," ","2","\n","N","a","r","r","a","t","i","o","n",":"," ","P","a","r","t"," ","2",".","\n","C","a","p","t","i","o","n",":"," ","P","o","i","n","t"," ","2",".","\n","S","c","e","n","e"," ","3","\n","N","a","r","r","a","t","i","o","n",":"," ","P","a","r","t"," ","3",".","\n","C","a","p","t","i","o","n",":"," ","P","o","i","n","t"," ","3",".","\n","S","c","e","n","e"," ","4","\n","N","a","r","r","a","t","i","o","n",":"," ","P","a","r","t"," ","4",".","\n","C","a","p","t","i","o","n",":"," ","P","o","i","n","t"," ","4",".">>
\* text of 5 scenes
T_TextOf5Scenes ==
    <<"S","c","e","n","e"," ","1","\n","N","a","r","r","a","t","i","o","n",":"," ","P","a","r","t"," ","1",".","\n","C","a","p","t","i","o","n",":"," ","P","o","i","n","t"," ","1",".","\n","S","c","e","n","e"," ","2","\n","N","a","r","r","a","t","i","o","n",":"," ","P","a","r","t"," ","2",".","\n","C","a","p","t","i","o","n",":"," ","P","o","i","n","t"," ","2",".","\n","S","c","e","n","e"," ","3","\n","N","a","r","r","a","t","i","o","n",":"," ","P","a","r","t"," ","3",".","\n","C","a","p","t","i","o","n",":"," ","P","o","i","n","t"," ","3",".","\n","S","c","e","n","e"," ","4","\n","N","a","r","r","a","t","i","o","n",":"," ","P","a","r","t"," ","4",".","\n","C","a","p","t","i","o","n",":"," ","P","o","i","n","t"," ","4",".","\n","\n","S","c","e","n","e"," ","1"," ","a","g","a","i","n","\n","N","a","r","r","a","t","i","o","n",":"," ","P","a","r","t"," ","5",".">>
\* text with fields before a scene
T_TextWithFieldsBeforeAScene ==
    <<"N","a","r","r","a","t","i","o","n",":"," ","H","e","l","l","o",".","\n","S","c","e","n","e"," ","1","\n","C","a","p","t","i","o","n",":"," ","O","n","e",".">>
\* text of 4 steps
T_TextOf4Steps ==
    <<"S","t","e","p"," ","1",":"," ","L","o","o","k"," ","a","t"," ","1",".","\n","S","t","e","p"," ","2",":"," ","L","o","o","k"," ","a","t"," ","2",".","\n","S","t","e","p"," ","3",":"," ","L","o","o","k"," ","a","t"," ","3",".","\n","S","t","e","p"," ","4",":"," ","L","o","o","k"," ","a","t"," ","4",".">>
\* narration without colon
T_NarrationWithoutColon ==
    <<"S","c","e","n","e"," ","1","\n","T","h","e"," ","n","a","r","r","a","t","i","o","n"," ","f","o","l","l","o","w","s">>
\* empty text
T_EmptyText ==
    <<>>
\* blank lines
T_BlankLines ==
    <<" ","\n","\n">>

\* What model.generate_content and response.text produce: an exception
\* of the call, an exception of .text, or a text.
StoryResponses == <<
    StoryRaised, StoryBlocked,
    StoryText(T_ArrayOf0Scenes),
    StoryText(T_ArrayOf1Scenes),
    StoryText(T_ArrayOf2Scenes),
    StoryText(T_ArrayOf3Scenes),
    StoryText(T_ArrayOf4Scenes),
    StoryText(T_ArrayOf5Scenes),
    StoryText(T_ArrayOf6Scenes),
    StoryText(T_IndentedArrayOf3Scenes),
    StoryText(T_IndentedArrayOf4Scenes),
    StoryText(T_IndentedArrayOf5Scenes),
    StoryText(T_ArrayOf2ScenesInProse),
    StoryText(T_ArrayOf4ScenesInProse),
    StoryText(T_ArrayOf4ScenesWithLists),
    StoryText(T_2ObjectsNoArray),
    StoryText(T_4ObjectsNoArray),
    StoryText(T_5ObjectsNoArray),
    StoryText(T_4ObjectsWithListsNoArray),
    StoryText(T_OneObjectWithAListOf4),
    StoryText(T_ArrayCutShort),
    StoryText(T_ArrayWithABareWord),
    StoryText(T_ArrayWithATrailingComma),
    StoryText(T_TwoArrays),
    StoryText(T_ArrayOf4Numbers),
    StoryText(T_EscapedQuote),
    StoryText(T_EmptyArrayThenObject),
    StoryText(T_ObjectWithABadMember),
    StoryText(T_Refusal),
    StoryText(T_TextOf2Scenes),
    StoryText(T_TextOf4Scenes),
    StoryText(T_TextOf5Scenes),
    StoryText(T_TextWithFieldsBeforeAScene),
    StoryText(T_TextOf4Steps),
    StoryText(T_NarrationWithoutColon),
    StoryText(T_EmptyText),
    StoryText(T_BlankLines) >>

StorySystems == {"enhanced", "simple"}

\* Mutant: the parsed scenes are returned as they are.
EnsureFour_asParsed(system, story_data, c) == story_data

\* "Ensure exactly 4 scenes": the enhanced system cuts the list after 4 or
\* fills it with default scenes, the simple system takes the fallback story.
EnsureFour(system, story_data, c) ==
    IF Len(story_data) = 4 THEN story_data
    ELSE IF system = "simple" THEN create_fallback_story_simple(c)
    ELSE IF Len(story_data) > 4 THEN SubSeq(story_data, 1, 4)
    ELSE story_data \o [i \in 1..(4 - Len(story_data)) |->
                           create_default_scene(Len(story_data) + i)]

\* generate_story_scenes of the two systems, from what the model produced on.
generate_story_scenes(system, c, resp) ==
    LET story_data == IF system = "enhanced" THEN EnhancedParse(resp.text)
                      ELSE Ok(SimpleParse(resp.text))
    IN  IF resp.kind # "text" THEN create_fallback_story(system, c)
        ELSE IF story_data.exc # "none" THEN create_fallback_story(system, c)
        ELSE EnsureFour(system, story_data.val.v, c)

\* generate_story_scenes is called and the model answers.
StoryCall ==
    /\ storyPc = "none"
    /\ \E system \in StorySystems, t \in 1..Len(Topics), r \in 1..Len(StoryResponses) :
          /\ storySystem' = system
          /\ concept' = Topics[t]
          /\ response' = StoryResponses[r]
    /\ storyPc' = "called"
    /\ UNCHANGED scenes
    /\ UNCHANGED <<cliVars, lessonVars, botVars>>

\* generate_story_scenes returns.
StoryReturn ==
    /\ storyPc = "called"
    /\ scenes' = generate_story_scenes(storySystem, concept, response)
    /\ storyPc' = "returned"
    /\ UNCHANGED <<storySystem, concept, response>>
    /\ UNCHANGED <<cliVars, lessonVars, botVars>>

NextStory ==
    \/ StoryCall
    \/ StoryReturn

SpecStory == Init /\ [][NextStory]_vars

\* The JSON array of the text, if it has one that loads, holds objects only.
ArrayOfObjects(resp) ==
    (resp.kind = "text" /\ HasArrayMatch(resp.text)
        /\ json_loads(ArrayMatch(resp.text)).exc = "none") =>
    \A i \in 1..Len(json_loads(ArrayMatch(resp.text)).val.v) :
        json_loads(ArrayMatch(resp.text)).val.v[i].t = "obj"

\* C29: generate_story_scenes returns a list of exactly 4 scenes for every
\* outcome of the model, in the enhanced and in the simple system: a JSON
\* array of fewer or more than 4 scenes, a text without JSON, a text that
\* does not parse, an exception of the API.
C29_AlwaysFourScenes ==
    storyPc = "returned" =>
        /\ Len(scenes) = 4
        /\ ArrayOfObjects(response) => \A i \in 1..4 : scenes[i].t = "obj"

\* An array of 6 scenes came back and 4 scenes were returned.
C29_Witness ==
    /\ storyPc = "returned" /\ response = StoryText(T_ArrayOf6Scenes)
    /\ Len(scenes) = 4

====
